---------------------------- MODULE Spec2Model ----------------------------
(***************************************************************************)
(* The collision-aware Player of src/player-copy.py driven by the frame    *)
(* loop of src/main2.py, with the frame extraction of src/spritesheet.py   *)
(* and the constants of src/settings.py.                                   *)
(*                                                                         *)
(* Numbers.  clock.tick() returns whole milliseconds, so dt is modelled as *)
(* an integer number of ms.  Speeds are whole multiples of 100 px/s, so    *)
(* every displacement v*dt/1000 is a whole number of tenths of a pixel:    *)
(* position is kept in tenths of a pixel and the float arithmetic of the   *)
(* source is modelled as exact arithmetic on these tenths.  Rect           *)
(* coordinates are whole pixels, velocity is in px/s.                      *)
(***************************************************************************)
EXTENDS Integers, Sequences, FiniteSets, TLC

VARIABLES
    wizard,     \* the Player instance (main2.py: wizard)
    platforms,  \* the platform group, in insertion order (main2.py: platforms)
    keys,       \* pygame.key.get_pressed() as sampled by the last update
    dt,         \* dt of the last update, in ms (main2.py: dt)
    running,    \* main2.py: running
    pc,         \* where the program is: "loop", "aborted" or "exited"
    prev,       \* history: the Player as it was before the last update
    calls,      \* history: number of update calls made so far
    origin,     \* history: the Player as constructed
    streak,     \* history: update calls since the animation cursor was last reset
    contact,    \* history: some call so far touched a platform or a world boundary
    twin,       \* a second Player driven by the same keys with dt2
    dt2,        \* the twin's dt, in ms
    agree,      \* history: both Players selected the same target animation in every call
    sheet,      \* the spritesheet: "unloaded", "loaded" or "failed"
    loads,      \* history: number of calls of pygame.image.load
    samples,    \* history: number of clock ticks and event pumps made by the loop
    draws,      \* history: number of renders made by the loop
    step,       \* where the loop body is: "top", "update" or "draw"
    request,    \* the arguments of the last direct call of a Spritesheet method
    extracted   \* the images that call returned, in order

vars == <<wizard, platforms, keys, dt, running, pc, prev, calls, origin, streak,
          contact, twin, dt2, agree, sheet, loads, samples, draws, step, request,
          extracted>>

----------------------------------------------------------------------------
(* settings.py *)

GLOBAL_SCALE_FACTOR == 3
BASE_GAME_AREA_WIDTH == 320
BASE_GAME_AREA_HEIGHT == 144
BASE_INFO_PANEL_HEIGHT == 56
BASE_SCREEN_WIDTH == BASE_GAME_AREA_WIDTH
BASE_SCREEN_HEIGHT == BASE_GAME_AREA_HEIGHT + BASE_INFO_PANEL_HEIGHT
SCREEN_WIDTH == BASE_SCREEN_WIDTH * GLOBAL_SCALE_FACTOR
SCREEN_HEIGHT == BASE_SCREEN_HEIGHT * GLOBAL_SCALE_FACTOR
GAME_AREA_WIDTH == BASE_GAME_AREA_WIDTH * GLOBAL_SCALE_FACTOR
GAME_AREA_HEIGHT == BASE_GAME_AREA_HEIGHT * GLOBAL_SCALE_FACTOR
BASE_TILE_WIDTH == BASE_GAME_AREA_WIDTH \div 40
BASE_TILE_HEIGHT == BASE_GAME_AREA_HEIGHT \div 18
TILE_WIDTH == BASE_TILE_WIDTH * GLOBAL_SCALE_FACTOR
TILE_HEIGHT == BASE_TILE_HEIGHT * GLOBAL_SCALE_FACTOR
PLAYER_SPRITE_WIDTH == 24
PLAYER_SPRITE_HEIGHT == 24
\* settings.py keeps the definition only as a comment; main.py uses the same 3.
PLAYER_SCALE_FACTOR == 3
PLAYER_ANIMATION_TICKS_PER_FRAME == 7
\* 0.1 * GLOBAL_SCALE_FACTOR px/s, held in tenths of a px/s
PLAYER_ANIMATION_VELOCITY_THRESHOLD == 1 * GLOBAL_SCALE_FACTOR
PLAYER_SPEED_PPS == 500
PLAYER_GRAVITY_PPS == 300

----------------------------------------------------------------------------
(* Python and pygame primitives *)

\* Python round() on a value held in tenths: to nearest, ties to even.
round(t) ==
    LET q == t \div 10
        r == t % 10
    IN  IF r < 5 THEN q
        ELSE IF r > 5 THEN q + 1
        ELSE IF q % 2 = 0 THEN q ELSE q + 1

\* float(n) of a whole pixel count, as tenths
float(n) == n * 10

\* v px/s during dt ms, in tenths of a pixel
Displacement(v, d) == (v * d) \div 100

Rect(x, y, w, h) == [x |-> x, y |-> y, w |-> w, h |-> h]

\* "self.rect is None"
NoRect == [x |-> 0, y |-> 0, w |-> -1, h |-> -1]

\* pygame.Rect.colliderect: the interiors overlap (touching edges do not)
colliderect(a, b) ==
    /\ a.x < b.x + b.w
    /\ a.y < b.y + b.h
    /\ a.x + a.w > b.x
    /\ a.y + a.h > b.y

\* pygame.sprite.spritecollide(self, platforms, False): the platforms hit, in
\* group order
RECURSIVE spritecollide(_, _)
spritecollide(r, group) ==
    IF group = <<>> THEN <<>>
    ELSE LET rest == spritecollide(r, Tail(group))
         IN  IF colliderect(r, Head(group).rect) THEN <<Head(group)>> \o rest
             ELSE rest

\* image.get_rect(topleft=(x, y)); image.get_rect(center=(cx, cy))
get_rect_topleft(image, x, y) == Rect(x, y, image.w, image.h)
centerx(r) == r.x + r.w \div 2
centery(r) == r.y + r.h \div 2
get_rect_center(image, cx, cy) ==
    Rect(cx - image.w \div 2, cy - image.h \div 2, image.w, image.h)

----------------------------------------------------------------------------
(* spritesheet.py.  An image is what get_image makes it: the source        *)
(* rectangle it was cut from and its final size.                           *)

NoImage == [kind |-> "none", x |-> 0, y |-> 0, w |-> 0, h |-> 0]

\* no method of the Spritesheet has been called directly
NoRequest ==
    [method |-> "none", x |-> 0, y |-> 0, width |-> 0, height |-> 0, num_frames |-> 0,
     spacing |-> 0, scale |-> 0]

\* pygame.Surface((32*scale, 32*scale)) filled with a flat colour
Placeholder(color) ==
    [kind |-> color, x |-> 0, y |-> 0,
     w |-> 32 * PLAYER_SCALE_FACTOR, h |-> 32 * PLAYER_SCALE_FACTOR]

\* int(w * scale), the scale held in tenths
ScaledSize(w, scale10) == (w * scale10) \div 10

get_image(x, y, width, height, scale10) ==
    IF scale10 # 0
    THEN [kind |-> "frame", x |-> x, y |-> y,
          w |-> ScaledSize(width, scale10), h |-> ScaledSize(height, scale10)]
    ELSE [kind |-> "frame", x |-> x, y |-> y, w |-> width, h |-> height]

\* get_animation_frames that advances current_x by frame_width alone
RECURSIVE get_animation_frames_ignores_spacing(_, _, _, _, _, _, _)
get_animation_frames_ignores_spacing(start_x, y, frame_width, frame_height, num_frames, spacing, scale10) ==
    IF num_frames <= 0 THEN <<>>
    ELSE <<get_image(start_x, y, frame_width, frame_height, scale10)>>
         \o get_animation_frames_ignores_spacing(start_x + frame_width, y, frame_width,
                                                 frame_height, num_frames - 1, spacing,
                                                 scale10)

RECURSIVE get_animation_frames(_, _, _, _, _, _, _)
get_animation_frames(start_x, y, frame_width, frame_height, num_frames, spacing, scale10) ==
    IF num_frames <= 0 THEN <<>>
    ELSE <<get_image(start_x, y, frame_width, frame_height, scale10)>>
         \o get_animation_frames(start_x + frame_width + spacing, y, frame_width,
                                 frame_height, num_frames - 1, spacing, scale10)

----------------------------------------------------------------------------
(* player-copy.py: animations *)

None == "None"

\* Player.load_animations: the animations dict as a sequence of entries in
\* insertion order; an empty table leaves it empty.
RECURSIVE load_animations(_)
load_animations(animation_frames_data) ==
    IF animation_frames_data = <<>> THEN <<>>
    ELSE LET e == Head(animation_frames_data)
         IN  <<[name |-> e.name,
                frames |-> get_animation_frames(e.x, e.y, e.w, e.h, e.count, e.spacing,
                                                PLAYER_SCALE_FACTOR * 10)]>>
             \o load_animations(Tail(animation_frames_data))

\* self.animations.get(name): the frames, or the empty sequence for a missing
\* name (None and [] are both falsy, and the code only tests truthiness)
RECURSIVE animations_get(_, _)
animations_get(animations, name) ==
    IF animations = <<>> THEN <<>>
    ELSE IF Head(animations).name = name THEN Head(animations).frames
    ELSE animations_get(Tail(animations), name)

\* "animation_name in self.animations"
RECURSIVE animations_has(_, _)
animations_has(animations, name) ==
    IF animations = <<>> THEN FALSE
    ELSE Head(animations).name = name \/ animations_has(Tail(animations), name)

\* the for/else of set_animation: the first entry that has frames, if any
RECURSIVE first_available(_)
first_available(animations) ==
    IF animations = <<>> THEN [found |-> FALSE, name |-> None, frames |-> <<>>]
    ELSE IF Head(animations).frames # <<>>
         THEN [found |-> TRUE, name |-> Head(animations).name,
               frames |-> Head(animations).frames]
    ELSE first_available(Tail(animations))

\* the rect swap that keeps the top-left corner in place of the centre
install_frame_keeps_topleft(p) ==
    IF p.current_frame_index >= Len(p.current_frames)
    THEN [p EXCEPT !.raised = TRUE]
    ELSE LET new_image == p.current_frames[p.current_frame_index + 1]
         IN  IF p.rect # NoRect
             THEN [p EXCEPT !.image = new_image,
                            !.rect = get_rect_topleft(new_image, p.rect.x, p.rect.y)]
             ELSE [p EXCEPT !.image = new_image,
                            !.rect = get_rect_topleft(new_image, round(p.position.x),
                                                      round(p.position.y))]

\* "new_image = frames[index]" and the rect swap that follows it; an index out
\* of range raises IndexError
install_frame(p) ==
    IF p.current_frame_index >= Len(p.current_frames)
    THEN [p EXCEPT !.raised = TRUE]
    ELSE LET new_image == p.current_frames[p.current_frame_index + 1]
         IN  IF p.rect # NoRect
             THEN [p EXCEPT !.image = new_image,
                            !.rect = get_rect_center(new_image, centerx(p.rect), centery(p.rect))]
             ELSE [p EXCEPT !.image = new_image,
                            !.rect = get_rect_topleft(new_image, round(p.position.x),
                                                      round(p.position.y))]

\* the placeholder branches: "if self.rect is None: ... else: self.rect.size = ..."
install_placeholder(p, color) ==
    LET img == Placeholder(color)
    IN  [p EXCEPT !.image = img,
                  !.rect = IF p.rect = NoRect
                           THEN get_rect_topleft(img, round(p.position.x), round(p.position.y))
                           ELSE Rect(p.rect.x, p.rect.y, img.w, img.h)]

\* the cursor reset that forgets the frame index
reset_cursor_keeps_index(p) == [p EXCEPT !.ticks_since_last_frame_change = 0]

\* lines 84-85 (and 77-78)
reset_cursor(p) ==
    [p EXCEPT !.current_frame_index = 0, !.ticks_since_last_frame_change = 0]

\* set_animation that gives up at once on a name the mapping does not hold
set_animation_missing_returns(p, animation_name) ==
    IF p.current_animation_name = animation_name /\ p.current_frames # <<>> THEN p
    ELSE IF p.animations = <<>> THEN p
    ELSE IF ~animations_has(p.animations, animation_name) THEN p
    ELSE LET target_frames == animations_get(p.animations, animation_name)
         IN  IF target_frames = <<>>
             THEN IF /\ p.current_frames # <<>>
                     /\ p.current_animation_name # None
                     /\ animations_get(p.animations, p.current_animation_name) # <<>>
                  THEN p
                  ELSE LET fb == first_available(p.animations)
                       IN  IF fb.found
                           THEN install_frame(reset_cursor(
                                    [p EXCEPT !.current_animation_name = fb.name,
                                              !.current_frames = fb.frames]))
                           ELSE reset_cursor(
                                    [install_placeholder(p, "yellow")
                                        EXCEPT !.current_frames = <<>>,
                                               !.current_animation_name = animation_name])
             ELSE install_frame(reset_cursor(
                      [p EXCEPT !.current_animation_name = animation_name,
                                !.current_frames = target_frames]))

\* set_animation without lines 60-62: an unusable target always falls back to
\* the first animation that has frames
set_animation_drops_current(p, animation_name) ==
    IF p.current_animation_name = animation_name /\ p.current_frames # <<>> THEN p
    ELSE IF p.animations = <<>> THEN p
    ELSE LET target_frames == animations_get(p.animations, animation_name)
         IN  IF target_frames = <<>>
             THEN LET fb == first_available(p.animations)
                  IN  IF fb.found
                      THEN install_frame(reset_cursor(
                               [p EXCEPT !.current_animation_name = fb.name,
                                         !.current_frames = fb.frames]))
                      ELSE reset_cursor(
                               [install_placeholder(p, "yellow")
                                   EXCEPT !.current_frames = <<>>,
                                          !.current_animation_name = animation_name])
             ELSE install_frame(reset_cursor(
                      [p EXCEPT !.current_animation_name = animation_name,
                                !.current_frames = target_frames]))

set_animation(p, animation_name) ==
    IF p.current_animation_name = animation_name /\ p.current_frames # <<>> THEN p
    ELSE IF p.animations = <<>> THEN p
    ELSE LET target_frames == animations_get(p.animations, animation_name)
         IN  IF target_frames = <<>>
             THEN IF /\ p.current_frames # <<>>
                     /\ p.current_animation_name # None
                     /\ animations_get(p.animations, p.current_animation_name) # <<>>
                  THEN p
                  ELSE LET fb == first_available(p.animations)
                       IN  IF fb.found
                           THEN install_frame(reset_cursor(
                                    [p EXCEPT !.current_animation_name = fb.name,
                                              !.current_frames = fb.frames]))
                           ELSE reset_cursor(
                                    [install_placeholder(p, "yellow")
                                        EXCEPT !.current_frames = <<>>,
                                               !.current_animation_name = animation_name])
             ELSE install_frame(reset_cursor(
                      [p EXCEPT !.current_animation_name = animation_name,
                                !.current_frames = target_frames]))

\* Player.__init__ without the placeholder of lines 34-41
Player_without_placeholder(animation_frames_data, initial_animation, position, animation_ticks_per_frame) ==
    LET p0 == [animations |-> load_animations(animation_frames_data),
               current_animation_name |-> None,
               current_frames |-> <<>>,
               current_frame_index |-> 0,
               animation_ticks_per_frame |-> animation_ticks_per_frame,
               ticks_since_last_frame_change |-> 0,
               position |-> [x |-> float(position.x), y |-> float(position.y)],
               velocity |-> [x |-> 0, y |-> 0],
               is_on_ground |-> FALSE,
               image |-> NoImage,
               rect |-> NoRect,
               raised |-> FALSE]
    IN  IF initial_animation # None /\ animations_get(p0.animations, initial_animation) # <<>>
        THEN set_animation(p0, initial_animation)
        ELSE p0

\* Player.__init__
Player(animation_frames_data, initial_animation, position, animation_ticks_per_frame) ==
    LET p0 == [animations |-> load_animations(animation_frames_data),
               current_animation_name |-> None,
               current_frames |-> <<>>,
               current_frame_index |-> 0,
               animation_ticks_per_frame |-> animation_ticks_per_frame,
               ticks_since_last_frame_change |-> 0,
               position |-> [x |-> float(position.x), y |-> float(position.y)],
               velocity |-> [x |-> 0, y |-> 0],
               is_on_ground |-> FALSE,
               image |-> NoImage,
               rect |-> NoRect,
               raised |-> FALSE]
    IN  IF initial_animation # None /\ animations_get(p0.animations, initial_animation) # <<>>
        THEN set_animation(p0, initial_animation)
        ELSE LET img == Placeholder("red")
             IN  [p0 EXCEPT !.image = img,
                            !.rect = get_rect_topleft(img, position.x, position.y)]

\* the target animation update_animation derives from the resolved velocity
target_animation(p) ==
    IF p.velocity.x * 10 > PLAYER_ANIMATION_VELOCITY_THRESHOLD THEN "walk_right"
    ELSE IF p.velocity.x * 10 < -PLAYER_ANIMATION_VELOCITY_THRESHOLD THEN "walk_left"
    ELSE "idle_front"

\* lines 234-239: the frame swap, guarded by the index being in range
swap_frame(p) ==
    IF p.current_frame_index < Len(p.current_frames) THEN install_frame(p) ELSE p

\* the tick rule with ">" in place of ">=": a frame is held one call too long
advance_frame_late(p) ==
    LET t == p.ticks_since_last_frame_change + 1
    IN  IF t > p.animation_ticks_per_frame
        THEN swap_frame(
                 [p EXCEPT !.ticks_since_last_frame_change = 0,
                           !.current_frame_index =
                               (p.current_frame_index + 1) % Len(p.current_frames)])
        ELSE [p EXCEPT !.ticks_since_last_frame_change = t]

\* the tick rule without the modulo: the index runs past the last frame
advance_frame_no_wrap(p) ==
    LET t == p.ticks_since_last_frame_change + 1
    IN  IF t >= p.animation_ticks_per_frame
        THEN swap_frame(
                 [p EXCEPT !.ticks_since_last_frame_change = 0,
                           !.current_frame_index = p.current_frame_index + 1])
        ELSE [p EXCEPT !.ticks_since_last_frame_change = t]

\* the tick rule, lines 229-239
advance_frame(p) ==
    LET t == p.ticks_since_last_frame_change + 1
    IN  IF t >= p.animation_ticks_per_frame
        THEN swap_frame(
                 [p EXCEPT !.ticks_since_last_frame_change = 0,
                           !.current_frame_index =
                               (p.current_frame_index + 1) % Len(p.current_frames)])
        ELSE [p EXCEPT !.ticks_since_last_frame_change = t]

\* update_animation that rewinds the cursor on every call before the tick rule
update_animation_rewinds(p) ==
    LET q == IF p.current_animation_name # target_animation(p) \/ p.current_frames = <<>>
             THEN set_animation(p, target_animation(p))
             ELSE reset_cursor(p)
    IN  IF q.raised THEN q
        ELSE IF q.current_frames = <<>> THEN q
        ELSE advance_frame(q)

update_animation(p) ==
    LET q == IF p.current_animation_name # target_animation(p) \/ p.current_frames = <<>>
             THEN set_animation(p, target_animation(p))
             ELSE p
    IN  IF q.raised THEN q
        ELSE IF q.current_frames = <<>>
        THEN IF q.image = NoImage
             THEN LET img == Placeholder("blue")
                  IN  [q EXCEPT !.image = img,
                                !.rect = IF q.rect = NoRect
                                         THEN get_rect_topleft(img, round(q.position.x),
                                                               round(q.position.y))
                                         ELSE q.rect]
             ELSE q
        ELSE advance_frame(q)

----------------------------------------------------------------------------
(* player-copy.py: movement, collision, boundaries *)

NoKeys == [left |-> FALSE, right |-> FALSE, up |-> FALSE, down |-> FALSE]
KeyStates == [left : BOOLEAN, right : BOOLEAN, up : BOOLEAN, down : BOOLEAN]

\* the rule in which right wins when both keys are held
target_horizontal_velocity_right_wins(k) ==
    IF k.right THEN PLAYER_SPEED_PPS
    ELSE IF k.left THEN -PLAYER_SPEED_PPS
    ELSE 0

\* lines 105-110
target_horizontal_velocity(k) ==
    IF k.left /\ ~k.right THEN -PLAYER_SPEED_PPS
    ELSE IF k.right /\ ~k.left THEN PLAYER_SPEED_PPS
    ELSE 0

\* the rule with the two key tests swapped: down wins when both are held
target_vertical_velocity_down_first(p, k) ==
    LET current_vy == IF k.down THEN PLAYER_SPEED_PPS
                      ELSE IF k.up THEN -PLAYER_SPEED_PPS
                      ELSE PLAYER_GRAVITY_PPS
    IN  IF p.is_on_ground /\ ~k.up /\ ~k.down THEN 0 ELSE current_vy

\* lines 112-124
target_vertical_velocity(p, k) ==
    LET current_vy == IF k.up THEN -PLAYER_SPEED_PPS
                      ELSE IF k.down THEN PLAYER_SPEED_PPS
                      ELSE PLAYER_GRAVITY_PPS
    IN  IF p.is_on_ground /\ ~k.up /\ ~k.down THEN 0 ELSE current_vy

\* the integration done before the velocity is set: it uses the old velocity
handle_input_and_movement_stale(p, k, d) ==
    LET vx == target_horizontal_velocity(k)
        vy == target_vertical_velocity(p, k)
    IN  [p EXCEPT !.velocity = [x |-> vx, y |-> vy],
                  !.position = [x |-> p.position.x + Displacement(p.velocity.x, d),
                                y |-> p.position.y + Displacement(p.velocity.y, d)]]

handle_input_and_movement(p, k, d) ==
    LET vx == target_horizontal_velocity(k)
        vy == target_vertical_velocity(p, k)
    IN  [p EXCEPT !.velocity = [x |-> vx, y |-> vy],
                  !.position = [x |-> p.position.x + Displacement(vx, d),
                                y |-> p.position.y + Displacement(vy, d)]]

\* lines 246-252 of update and 134-136: a missing rect is created first
ensure_rect(p) ==
    IF p.rect # NoRect THEN p
    ELSE IF p.image # NoImage
    THEN [p EXCEPT !.rect = get_rect_topleft(p.image, round(p.position.x), round(p.position.y))]
    ELSE [p EXCEPT !.rect = Rect(round(p.position.x), round(p.position.y),
                                 32 * PLAYER_SCALE_FACTOR, 32 * PLAYER_SCALE_FACTOR)]

\* line 138
snap_x(p) == [p EXCEPT !.rect.x = round(p.position.x)]

\* line 141: the horizontal hit list
hit_list_x(p, group) == spritecollide(snap_x(p).rect, group)

\* the loop body aligning left edges when moving right
resolve_hit_x_left_to_left(p, platform_hit) ==
    LET r == IF p.velocity.x > 0
             THEN [p.rect EXCEPT !.x = platform_hit.rect.x]
             ELSE IF p.velocity.x < 0
             THEN [p.rect EXCEPT !.x = platform_hit.rect.x + platform_hit.rect.w]
             ELSE p.rect
    IN  [p EXCEPT !.rect = r, !.position.x = float(r.x), !.velocity.x = 0]

\* lines 142-148, one iteration of the loop
resolve_hit_x(p, platform_hit) ==
    LET r == IF p.velocity.x > 0
             THEN [p.rect EXCEPT !.x = platform_hit.rect.x - p.rect.w]
             ELSE IF p.velocity.x < 0
             THEN [p.rect EXCEPT !.x = platform_hit.rect.x + platform_hit.rect.w]
             ELSE p.rect
    IN  [p EXCEPT !.rect = r, !.position.x = float(r.x), !.velocity.x = 0]

RECURSIVE resolve_hits_x(_, _)
resolve_hits_x(p, hits) ==
    IF hits = <<>> THEN p
    ELSE resolve_hits_x(resolve_hit_x(p, Head(hits)), Tail(hits))

\* lines 138-148
horizontal_pass(p, group) == resolve_hits_x(snap_x(p), hit_list_x(p, group))

\* lines 151-158 without the reset of is_on_ground
snap_y_keeps_ground(p) == [p EXCEPT !.rect.y = round(p.position.y)]

\* lines 151-158
snap_y(p) == [p EXCEPT !.rect.y = round(p.position.y), !.is_on_ground = FALSE]

\* line 160: the vertical hit list
hit_list_y(p, group) == spritecollide(snap_y(p).rect, group)

\* the loop body aligning bottom edges when moving down
resolve_hit_y_bottom_to_bottom(p, platform_hit) ==
    LET down == p.velocity.y > 0
        r == IF down
             THEN [p.rect EXCEPT !.y = platform_hit.rect.y + platform_hit.rect.h - p.rect.h]
             ELSE IF p.velocity.y < 0
             THEN [p.rect EXCEPT !.y = platform_hit.rect.y + platform_hit.rect.h]
             ELSE p.rect
    IN  [p EXCEPT !.rect = r,
                  !.is_on_ground = IF down THEN TRUE ELSE p.is_on_ground,
                  !.position.y = float(r.y),
                  !.velocity.y = 0]

\* the loop body without line 163: a hit from above never grounds the player
resolve_hit_y_never_grounds(p, platform_hit) ==
    LET down == p.velocity.y > 0
        r == IF down
             THEN [p.rect EXCEPT !.y = platform_hit.rect.y - p.rect.h]
             ELSE IF p.velocity.y < 0
             THEN [p.rect EXCEPT !.y = platform_hit.rect.y + platform_hit.rect.h]
             ELSE p.rect
    IN  [p EXCEPT !.rect = r,
                  !.position.y = float(r.y),
                  !.velocity.y = 0]

\* the loop body without line 168: the velocity survives the hit, so the next
\* platform of the list corrects the rect again
resolve_hit_y_keeps_velocity(p, platform_hit) ==
    LET down == p.velocity.y > 0
        r == IF down
             THEN [p.rect EXCEPT !.y = platform_hit.rect.y - p.rect.h]
             ELSE IF p.velocity.y < 0
             THEN [p.rect EXCEPT !.y = platform_hit.rect.y + platform_hit.rect.h]
             ELSE p.rect
    IN  [p EXCEPT !.rect = r,
                  !.is_on_ground = IF down THEN TRUE ELSE p.is_on_ground,
                  !.position.y = float(r.y)]

\* lines 161-168, one iteration of the loop
resolve_hit_y(p, platform_hit) ==
    LET down == p.velocity.y > 0
        r == IF down
             THEN [p.rect EXCEPT !.y = platform_hit.rect.y - p.rect.h]
             ELSE IF p.velocity.y < 0
             THEN [p.rect EXCEPT !.y = platform_hit.rect.y + platform_hit.rect.h]
             ELSE p.rect
    IN  [p EXCEPT !.rect = r,
                  !.is_on_ground = IF down THEN TRUE ELSE p.is_on_ground,
                  !.position.y = float(r.y),
                  !.velocity.y = 0]

RECURSIVE resolve_hits_y(_, _)
resolve_hits_y(p, hits) ==
    IF hits = <<>> THEN p
    ELSE resolve_hits_y(resolve_hit_y(p, Head(hits)), Tail(hits))

\* lines 151-168
vertical_pass(p, group) == resolve_hits_y(snap_y(p), hit_list_y(p, group))

\* the two passes in the other order: vertical first, at the previous x
handle_platform_collisions_vertical_first(p, group) ==
    horizontal_pass(vertical_pass(ensure_rect(p), group), group)

handle_platform_collisions(p, group) ==
    vertical_pass(horizontal_pass(ensure_rect(p), group), group)

\* lines 180-185
clamp_x(p) ==
    IF p.position.x < 0
    THEN [p EXCEPT !.position.x = 0,
                   !.velocity.x = IF p.velocity.x < 0 THEN 0 ELSE p.velocity.x]
    ELSE IF p.position.x + float(p.rect.w) > float(SCREEN_WIDTH)
    THEN [p EXCEPT !.position.x = float(SCREEN_WIDTH - p.rect.w),
                   !.velocity.x = IF p.velocity.x > 0 THEN 0 ELSE p.velocity.x]
    ELSE p

\* line 193: the bottom edge is below the playable area (and the top is not above it)
floor_clamps(p) ==
    /\ p.rect # NoRect
    /\ ~(p.position.y < 0)
    /\ p.position.y + float(p.rect.h) > float(GAME_AREA_HEIGHT)

\* the vertical clamp that zeroes velocity.y whichever way it points
clamp_y_always_zeroes(p) ==
    IF p.position.y < 0
    THEN [p EXCEPT !.position.y = 0, !.velocity.y = 0]
    ELSE IF floor_clamps(p)
    THEN [p EXCEPT !.position.y = float(GAME_AREA_HEIGHT - p.rect.h),
                   !.is_on_ground = TRUE,
                   !.velocity.y = 0]
    ELSE p

\* the floor of the draft (player.py, line 192): SCREEN_HEIGHT
clamp_y_screen_height(p) ==
    IF p.position.y < 0
    THEN [p EXCEPT !.position.y = 0,
                   !.velocity.y = IF p.velocity.y < 0 THEN 0 ELSE p.velocity.y]
    ELSE IF p.position.y + float(p.rect.h) > float(SCREEN_HEIGHT)
    THEN [p EXCEPT !.position.y = float(SCREEN_HEIGHT - p.rect.h),
                   !.is_on_ground = TRUE,
                   !.velocity.y = IF p.velocity.y > 0 THEN 0 ELSE p.velocity.y]
    ELSE p

\* lines 188-199
clamp_y(p) ==
    IF p.position.y < 0
    THEN [p EXCEPT !.position.y = 0,
                   !.velocity.y = IF p.velocity.y < 0 THEN 0 ELSE p.velocity.y]
    ELSE IF floor_clamps(p)
    THEN [p EXCEPT !.position.y = float(GAME_AREA_HEIGHT - p.rect.h),
                   !.is_on_ground = TRUE,
                   !.velocity.y = IF p.velocity.y > 0 THEN 0 ELSE p.velocity.y]
    ELSE p

apply_screen_boundaries(p) ==
    IF p.rect = NoRect THEN p ELSE clamp_y(clamp_x(p))

\* lines 264-265
resync_rect(p) ==
    IF p.rect # NoRect
    THEN [p EXCEPT !.rect.x = round(p.position.x), !.rect.y = round(p.position.y)]
    ELSE p

\* the Player after steps 1-2, after step 3 and after step 4 of update
collided(p, k, d, group) ==
    handle_platform_collisions(ensure_rect(handle_input_and_movement(p, k, d)), group)
bounded(p, k, d, group) == apply_screen_boundaries(collided(p, k, d, group))
resolved(p, k, d, group) == resync_rect(bounded(p, k, d, group))

\* update with the animation chosen right after the input step, before the
\* collisions and boundaries have resolved the velocity
update_animates_first(p, k, d, group) ==
    resync_rect(apply_screen_boundaries(handle_platform_collisions(
        update_animation(ensure_rect(handle_input_and_movement(p, k, d))), group)))

\* update with the animation stepped once per 17 ms of dt instead of once per call
update_time_based(p, k, d, group) ==
    LET once == update_animation(resolved(p, k, d, group))
    IN  IF d > 17 /\ ~once.raised THEN update_animation(once) ELSE once

\* Player.update
update(p, k, d, group) == update_animation(resolved(p, k, d, group))

\* the members pygame.sprite.spritecollide(self, group, dokill) leaves in the
\* group: with dokill the sprites hit are removed from it
RECURSIVE group_after_spritecollide(_, _, _)
group_after_spritecollide(r, group, dokill) ==
    IF group = <<>> THEN <<>>
    ELSE (IF dokill /\ colliderect(r, Head(group).rect) THEN <<>> ELSE <<Head(group)>>)
         \o group_after_spritecollide(r, Tail(group), dokill)

\* the platform group after an update whose collision checks kill what they hit
update_platforms_dokill(p, k, d, group) ==
    LET m == ensure_rect(ensure_rect(handle_input_and_movement(p, k, d)))
        g == group_after_spritecollide(snap_x(m).rect, group, TRUE)
    IN  group_after_spritecollide(snap_y(horizontal_pass(m, group)).rect, g, TRUE)

\* the platform group after Player.update: nothing assigns to a platform, and
\* the two collision checks (lines 141 and 160) pass dokill = False
update_platforms(p, k, d, group) ==
    LET m == ensure_rect(ensure_rect(handle_input_and_movement(p, k, d)))
        g == group_after_spritecollide(snap_x(m).rect, group, FALSE)
    IN  group_after_spritecollide(snap_y(horizontal_pass(m, group)).rect, g, FALSE)

----------------------------------------------------------------------------
(* platform.py and main2.py: the world *)

\* Platform.__init__
Platform(x, y, width, height, color) ==
    [rect |-> Rect(x, y, width, height), color |-> color]

\* main2.py, platform_definitions: (tile_col, tile_row, tiles_wide, tiles_high, color)
platform_definitions ==
    << <<0, (BASE_GAME_AREA_HEIGHT \div BASE_TILE_HEIGHT) - 1,
         BASE_GAME_AREA_WIDTH \div BASE_TILE_WIDTH, 1, "GREEN">>,
       <<15, (BASE_GAME_AREA_HEIGHT \div BASE_TILE_HEIGHT) - 4, 8, 1, "WHITE">>,
       <<4, (BASE_GAME_AREA_HEIGHT \div BASE_TILE_HEIGHT) - 7, 6, 1, "GREY">> >>

\* main2.py, lines 112-124
create_platforms ==
    [i \in 1..Len(platform_definitions) |->
        LET p_def == platform_definitions[i]
        IN  Platform(p_def[1] * TILE_WIDTH, p_def[2] * TILE_HEIGHT,
                     p_def[3] * TILE_WIDTH, p_def[4] * TILE_HEIGHT, p_def[5])]

\* one entry of an animation definition table
AnimationEntry(name, x, w, h, count) ==
    [name |-> name, x |-> x, y |-> 75, w |-> w, h |-> h, count |-> count, spacing |-> 1]

\* main2.py, wizard_animations_data
wizard_animations_data ==
    << AnimationEntry("walk_left", 0, PLAYER_SPRITE_WIDTH, PLAYER_SPRITE_HEIGHT, 4),
       AnimationEntry("idle_front", 100, PLAYER_SPRITE_WIDTH, PLAYER_SPRITE_HEIGHT, 4),
       AnimationEntry("walk_right", 200, PLAYER_SPRITE_WIDTH, PLAYER_SPRITE_HEIGHT, 4) >>

\* main2.py, lines 74-75
player_start_pos ==
    [x |-> GAME_AREA_WIDTH \div 3, y |-> GAME_AREA_HEIGHT - (TILE_HEIGHT * 3)]

----------------------------------------------------------------------------
(* Bounds and input sets *)

MaxUpdates == 2     \* update calls explored with freely changing keys
HeldUpdates == 28   \* update calls explored with the keys held down
PairUpdates == 2    \* update calls explored for the comparison of two dt
MaxFrames == 2      \* loop iterations of main2.py explored
ArtUpdates == 2     \* update calls explored for the comparison of two art tables
CursorUpdates == 3  \* update calls explored around the calls of set_animation

\* frame times in ms: 60 and 30 frames per second
DTs == {17, 33}

\* animation_ticks_per_frame values, the shipped one among them
TicksChoices == {1, 2, 3, PLAYER_ANIMATION_TICKS_PER_FRAME}

\* tables whose entries all yield zero frames, that lack a name, that hold an
\* empty and a short clip, and whose clips differ in frame size
ZeroFrameTable ==
    << AnimationEntry("walk_left", 0, 24, 24, 0), AnimationEntry("idle_front", 100, 24, 24, 0),
       AnimationEntry("walk_right", 200, 24, 24, 0) >>
NoWalkRightTable ==
    << AnimationEntry("walk_left", 0, 24, 24, 4), AnimationEntry("idle_front", 100, 24, 24, 4) >>
ShortClipTable ==
    << AnimationEntry("idle_front", 100, 24, 24, 0), AnimationEntry("walk_right", 200, 24, 24, 2) >>
MixedSizeTable ==
    << AnimationEntry("walk_left", 0, 24, 24, 4), AnimationEntry("idle_front", 100, 24, 24, 4),
       AnimationEntry("walk_right", 200, 32, 32, 4) >>

AnimationTables ==
    { wizard_animations_data, <<>>, ZeroFrameTable, NoWalkRightTable, ShortClipTable,
      MixedSizeTable }

InitialAnimations == {"idle_front", "walk_right", None}

\* start positions: the one of main2.py, just above a floating platform, left
\* of it at two distances, with the rect bottom (and with the whole rect) below the
\* playable area, near the right edge, in the top left corner, and in the open
OpenPosition == [x |-> 600, y |-> 100]
StartPositions ==
    { player_start_pos,
      [x |-> 400, y |-> 262],
      [x |-> 285, y |-> 300],
      [x |-> 275, y |-> 300],
      [x |-> 600, y |-> 365],
      [x |-> 600, y |-> 460],
      [x |-> 885, y |-> 100],
      [x |-> 3, y |-> 3],
      OpenPosition }
HeldPositions ==
    { player_start_pos, [x |-> 400, y |-> 262], [x |-> 285, y |-> 300], OpenPosition }

----------------------------------------------------------------------------
(* History of one update call *)

\* the call found a platform in a hit list or was clamped at a world boundary
touches(p, k, d, group) ==
    LET m == ensure_rect(handle_input_and_movement(p, k, d))
    IN  \/ hit_list_x(m, group) # <<>>
        \/ hit_list_y(horizontal_pass(m, group), group) # <<>>
        \/ bounded(p, k, d, group) # collided(p, k, d, group)

\* the call's set_animation reset the animation cursor
resets_cursor(p, k, d, group) ==
    LET r == resolved(p, k, d, group)
    IN  /\ r.current_animation_name # target_animation(r) \/ r.current_frames = <<>>
        /\ set_animation(r, target_animation(r)) # r

----------------------------------------------------------------------------
(* The Player under arbitrary key sequences *)

\* a Player exists: the spritesheet was loaded, once, and no loop has run yet
Loaded ==
    /\ sheet = "loaded" /\ loads = 1 /\ samples = 0 /\ draws = 0 /\ step = "top"
    /\ request = NoRequest /\ extracted = <<>>

InitWith(table, initial, pos, ticks, k, d, d2) ==
    /\ wizard = Player(table, initial, pos, ticks)
    /\ platforms = create_platforms
    /\ keys = k
    /\ dt = d
    /\ running = TRUE
    /\ pc = "loop"
    /\ prev = wizard
    /\ calls = 0
    /\ origin = wizard
    /\ streak = 0
    /\ contact = FALSE
    /\ twin = wizard
    /\ dt2 = d2
    /\ agree = TRUE
    /\ Loaded

Init ==
    \/ \E table \in {wizard_animations_data, <<>>, MixedSizeTable}, pos \in StartPositions :
           InitWith(table, "idle_front", pos, 2, NoKeys, 0, 0)
    \/ \E table \in AnimationTables, initial \in InitialAnimations :
           InitWith(table, initial, OpenPosition, 1, NoKeys, 0, 0)

\* one call of wizard.update(dt, platforms), with the history it leaves
UpdateCall(k, d) ==
    /\ pc = "loop"
    /\ ~wizard.raised
    /\ wizard' = update(wizard, k, d, platforms)
    /\ keys' = k
    /\ dt' = d
    /\ prev' = wizard
    /\ calls' = calls + 1
    /\ streak' = IF resets_cursor(wizard, k, d, platforms) THEN 1 ELSE streak + 1
    /\ contact' = (contact \/ touches(wizard, k, d, platforms))
    /\ platforms' = update_platforms(wizard, k, d, platforms)
    /\ UNCHANGED <<origin, request, extracted>>

Update ==
    \E k \in KeyStates, d \in DTs :
        /\ calls < MaxUpdates
        /\ UpdateCall(k, d)
        /\ UNCHANGED <<running, pc, twin, dt2, agree, sheet, loads, samples, draws, step>>

Next == Update

Spec == Init /\ [][Next]_vars

----------------------------------------------------------------------------
(* The Player with the keys held down and a fixed dt *)

InitHeld ==
    \E table \in AnimationTables, pos \in HeldPositions, ticks \in TicksChoices,
       k \in KeyStates, d \in DTs :
        InitWith(table, "idle_front", pos, ticks, k, d, 0)

HeldUpdate ==
    /\ calls < HeldUpdates
    /\ UpdateCall(keys, dt)
    /\ UNCHANGED <<running, pc, twin, dt2, agree, sheet, loads, samples, draws, step>>

NextHeld == HeldUpdate

SpecHeld == InitHeld /\ [][NextHeld]_vars

----------------------------------------------------------------------------
(* Two Players driven by the same keys, one with dt and one with dt2 *)

InitPair ==
    \E table \in {wizard_animations_data, <<>>}, pos \in StartPositions,
       d \in DTs, d2 \in DTs :
        d # d2 /\ InitWith(table, "idle_front", pos, 2, NoKeys, d, d2)

PairUpdate ==
    \E k \in KeyStates :
        /\ calls < PairUpdates
        /\ ~twin.raised
        /\ UpdateCall(k, dt)
        /\ twin' = update(twin, k, dt2, platforms)
        /\ agree' = (agree /\ target_animation(resolved(wizard, k, dt, platforms))
                                = target_animation(resolved(twin, k, dt2, platforms)))
        /\ UNCHANGED <<running, pc, dt2, sheet, loads, samples, draws, step>>

NextPair == PairUpdate

SpecPair == InitPair /\ [][NextPair]_vars

----------------------------------------------------------------------------
(* main2.py: wizard creation and the game loop, for any definition table *)

\* a gate that also rejects a table none of whose entries has frames
wizard_creation_strict(w) ==
    IF first_available(w.animations).found THEN "loop" ELSE "aborted"

\* lines 82-91: an empty animations dict raises ValueError, and the handler
\* quits pygame and exits before the loop
wizard_creation(w) == IF w.animations = <<>> THEN "aborted" ELSE "loop"

\* lines 71-124
InitMain2 ==
    \E table \in AnimationTables :
        /\ wizard = Player(table, "idle_front", player_start_pos,
                           PLAYER_ANIMATION_TICKS_PER_FRAME)
        /\ platforms = create_platforms
        /\ keys = NoKeys
        /\ dt = 0
        /\ running = TRUE
        /\ pc = wizard_creation(wizard)
        /\ prev = wizard
        /\ calls = 0
        /\ origin = wizard
        /\ streak = 0
        /\ contact = FALSE
        /\ twin = wizard
        /\ dt2 = 0
        /\ agree = TRUE
        /\ Loaded

\* lines 162-202, one iteration: the clock tick, the event pump (QUIT or
\* ESCAPE clears running), the update of the sprites, the render; the loop
\* condition is tested again only after the iteration
Frame ==
    \E quit \in BOOLEAN, k \in KeyStates, d \in DTs :
        /\ calls < MaxFrames
        /\ running
        /\ UpdateCall(k, d)
        /\ running' = ~quit
        /\ pc' = IF quit THEN "exited" ELSE "loop"
        /\ samples' = samples + 1
        /\ draws' = draws + 1
        /\ UNCHANGED <<twin, dt2, agree, sheet, loads, step>>

NextMain2 == Frame

SpecMain2 == InitMain2 /\ [][NextMain2]_vars

----------------------------------------------------------------------------
(* What the last update call did, recomputed from the Player before it *)

Zero == [x |-> 0, y |-> 0]
OnlyRight == [left |-> FALSE, right |-> TRUE, up |-> FALSE, down |-> FALSE]
LastMoved == ensure_rect(handle_input_and_movement(prev, keys, dt))
LastHitsX == hit_list_x(LastMoved, platforms)
LastAfterX == horizontal_pass(LastMoved, platforms)
LastHitsY == hit_list_y(LastAfterX, platforms)
LastCollided == collided(prev, keys, dt, platforms)
LastDownClamp == LastHitsY # <<>> /\ LastAfterX.velocity.y > 0
LastFloorClamp == floor_clamps(clamp_x(LastCollided))

----------------------------------------------------------------------------
(* C1 *)

\* C1 (as claimed): an update with no key held, begun with is_on_ground true,
\* leaves position unchanged and ends with velocity (0,0).
C1_RestIsIdempotent ==
    (calls > 0 /\ prev.is_on_ground /\ keys = NoKeys)
        => (wizard.position = prev.position /\ wizard.velocity = Zero)

----------------------------------------------------------------------------
(* C2 *)

\* C2 (as claimed): an update with right held and left not held whose
\* horizontal pass finds the rect overlapping a platform ends with rect.right
\* equal to that platform's left edge and velocity.x = 0.
C2_ClampEndsAtPlatformLeft ==
    (calls > 0 /\ keys.right /\ ~keys.left /\ LastHitsX # <<>>)
        => /\ wizard.rect.x + wizard.rect.w = Head(LastHitsX).rect.x
           /\ wizard.velocity.x = 0

\* C2 (amended): such an update ends with velocity.x = 0, and with rect.right
\* equal to the left edge of the first platform hit whenever that edge lies at
\* least one rect width inside the world and the frame swap of the same call
\* keeps the rect's width; when the edge lies closer to the left boundary, the
\* boundary clamp that follows ends the update at position.x = 0.
C2_HorizontalClamp ==
    (calls > 0 /\ keys.right /\ ~keys.left /\ LastHitsX # <<>>)
        => /\ wizard.velocity.x = 0
           /\ (/\ Head(LastHitsX).rect.x >= LastMoved.rect.w
               /\ Head(LastHitsX).rect.x <= SCREEN_WIDTH
               /\ wizard.rect.w = LastMoved.rect.w)
                  => /\ wizard.rect.x + wizard.rect.w = Head(LastHitsX).rect.x
                     /\ wizard.position.x = float(Head(LastHitsX).rect.x - wizard.rect.w)
           /\ Head(LastHitsX).rect.x < LastMoved.rect.w => wizard.position.x = 0

C2_Witness ==
    /\ calls > 0 /\ keys.right /\ ~keys.left /\ LastHitsX # <<>>
    /\ Head(LastHitsX).rect.x >= LastMoved.rect.w
    /\ wizard.rect.w = LastMoved.rect.w
    /\ wizard.rect.x + wizard.rect.w = Head(LastHitsX).rect.x
    /\ prev.position.x < wizard.position.x

----------------------------------------------------------------------------
(* C3 *)

\* C3: after every update call is_on_ground is true exactly when the call's
\* vertical pass clamped the player down onto a platform or its boundary step
\* clamped it at the floor; so it is false after a call with up held that made
\* no floor clamp.
C3_GroundingInvariant ==
    calls > 0
        => /\ wizard.is_on_ground <=> (LastDownClamp \/ LastFloorClamp)
           /\ (keys.up /\ ~LastFloorClamp) => ~wizard.is_on_ground

C3_Witness ==
    /\ calls > 0 /\ prev.is_on_ground /\ keys.up
    /\ wizard.position.y < prev.position.y
    /\ ~wizard.is_on_ground

----------------------------------------------------------------------------
(* C4 *)

PlacedBelowFloor ==
    origin.position.y + float(origin.rect.h) > float(GAME_AREA_HEIGHT)

\* C4 (as claimed): a player placed with its rect bottom below the playable
\* area ends its first update at position.y = GAME_AREA_HEIGHT - rect.height,
\* grounded and with velocity.y = 0, whatever keys are held.
C4_FirstUpdateClampsToFloor ==
    (calls = 1 /\ PlacedBelowFloor)
        => /\ wizard.position.y = float(GAME_AREA_HEIGHT - wizard.rect.h)
           /\ wizard.is_on_ground
           /\ wizard.velocity.y = 0

\* C4 (amended): the first update of such a player ends with the rect bottom
\* (at the height the rect had during the call) no lower than the floor; and
\* when movement and platform resolution leave the bottom below the floor, it
\* ends at exactly GAME_AREA_HEIGHT - rect.height, grounded, with velocity.y
\* zeroed if it was downward and left as it was (upward) otherwise.
C4_BoundaryClamp ==
    (calls = 1 /\ PlacedBelowFloor)
        => /\ wizard.position.y + float(LastCollided.rect.h) <= float(GAME_AREA_HEIGHT)
           /\ LastFloorClamp
                => /\ wizard.position.y = float(GAME_AREA_HEIGHT - LastCollided.rect.h)
                   /\ wizard.is_on_ground
                   /\ wizard.velocity.y <= 0
                   /\ (LastCollided.velocity.y >= 0 => wizard.velocity.y = 0)

C4_Witness ==
    /\ calls = 1 /\ PlacedBelowFloor /\ LastFloorClamp
    /\ wizard.position.y = float(GAME_AREA_HEIGHT - wizard.rect.h)
    /\ wizard.is_on_ground /\ wizard.velocity.y = 0

----------------------------------------------------------------------------
(* C5 *)

\* C5: while the animation cursor is not reset, the k-th update call after a
\* fresh set shows frame (k div N) mod L with tick count k mod N, N being
\* animation_ticks_per_frame and L the clip length: the indices 0..L-1 are
\* visited in order, each for N consecutive calls, and L*N calls return to 0.
C5_AnimationCycling ==
    wizard.current_frames # <<>>
        => /\ wizard.current_frame_index
                = (streak \div wizard.animation_ticks_per_frame) % Len(wizard.current_frames)
           /\ wizard.ticks_since_last_frame_change
                = streak % wizard.animation_ticks_per_frame

C5_Witness ==
    /\ Len(wizard.current_frames) = 4
    /\ wizard.animation_ticks_per_frame = PLAYER_ANIMATION_TICKS_PER_FRAME
    /\ streak = 4 * PLAYER_ANIMATION_TICKS_PER_FRAME
    /\ prev.current_frame_index = 3
    /\ wizard.current_frame_index = 0

----------------------------------------------------------------------------
(* C6 *)

\* C6 (as claimed): two runs from the same state with the same keys in every
\* call and two different fixed dt show the same (current_animation_name,
\* current_frame_index) after every call.
C6_SameAnimationForAnyDt ==
    /\ wizard.current_animation_name = twin.current_animation_name
    /\ wizard.current_frame_index = twin.current_frame_index

\* C6 (amended): they do so as long as the two runs resolved a velocity.x
\* selecting the same target animation in every call so far; a contact that
\* only one dt produces makes them differ.
C6_FrameRateIndependence ==
    agree => /\ wizard.current_animation_name = twin.current_animation_name
             /\ wizard.current_frame_index = twin.current_frame_index
             /\ wizard.ticks_since_last_frame_change = twin.ticks_since_last_frame_change

C6_Witness ==
    /\ agree /\ calls = PairUpdates
    /\ wizard.position # twin.position
    /\ wizard.current_animation_name = "walk_right"
    /\ wizard.current_frame_index = 1
    /\ twin.current_frame_index = 1

----------------------------------------------------------------------------
(* C7 *)

\* C7: after k consecutive update calls with only the right key held and a
\* fixed dt, none of which touched a platform or a boundary, velocity.x is
\* speed_pps and position.x has grown by k * speed_pps * dt; with a walk_right
\* clip loaded the current animation is walk_right.
C7_WalkingScenario ==
    (calls > 0 /\ keys = OnlyRight /\ ~contact)
        => /\ wizard.velocity.x = PLAYER_SPEED_PPS
           /\ wizard.position.x = origin.position.x + calls * Displacement(PLAYER_SPEED_PPS, dt)
           /\ animations_get(wizard.animations, "walk_right") # <<>>
                => wizard.current_animation_name = "walk_right"

C7_Witness ==
    /\ calls = 3 /\ dt = 17 /\ keys = OnlyRight /\ ~contact
    /\ wizard.animations = load_animations(wizard_animations_data)
    /\ wizard.velocity.x = PLAYER_SPEED_PPS
    /\ wizard.position.x = origin.position.x + 255
    /\ wizard.current_animation_name = "walk_right"

----------------------------------------------------------------------------
(* C8 *)

\* C8: for every animation definition table and initial animation, neither the
\* construction nor any update raises, and the Player always has an image and
\* a rect.
C8_MissingArtNeverCrashes ==
    /\ ~wizard.raised
    /\ wizard.image # NoImage
    /\ wizard.rect # NoRect

C8_Witness ==
    /\ calls > 0
    /\ origin.animations # <<>>
    /\ wizard.current_frames = <<>>
    /\ wizard.image = Placeholder("yellow")
    /\ ~wizard.raised

----------------------------------------------------------------------------
(* C9 *)

\* C9 (as claimed): in every reachable state current_frame_index is below
\* len(current_frames).
C9_IndexBelowLength == wizard.current_frame_index < Len(wizard.current_frames)

\* C9 (amended): whenever the current animation has frames the index is below
\* their number; with no frames (placeholder image) the index is 0.
C9_CursorInvariant ==
    /\ wizard.current_frame_index >= 0
    /\ wizard.current_frames # <<>>
         => wizard.current_frame_index < Len(wizard.current_frames)
    /\ wizard.current_frames = <<>> => wizard.current_frame_index = 0

C9_Witness ==
    /\ calls = 2
    /\ Len(wizard.current_frames) = 2
    /\ prev.current_frame_index = 1
    /\ wizard.current_frame_index = 0

----------------------------------------------------------------------------
(* C10 *)

NoFrames(w) == \A i \in 1..Len(w.animations) : w.animations[i].frames = <<>>

----------------------------------------------------------------------------
(* Two Players driven by the same keys and dt, one with the shipped art and *)
(* one built from a table that yields no frames                             *)

InitArt ==
    \E table \in {<<>>, ZeroFrameTable}, pos \in StartPositions :
        /\ wizard = Player(wizard_animations_data, "idle_front", pos,
                           PLAYER_ANIMATION_TICKS_PER_FRAME)
        /\ twin = Player(table, "idle_front", pos, PLAYER_ANIMATION_TICKS_PER_FRAME)
        /\ platforms = create_platforms
        /\ keys = NoKeys
        /\ dt = 0
        /\ dt2 = 0
        /\ running = TRUE
        /\ pc = "loop"
        /\ prev = wizard
        /\ calls = 0
        /\ origin = wizard
        /\ streak = 0
        /\ contact = FALSE
        /\ agree = TRUE
        /\ Loaded

ArtUpdate ==
    \E k \in KeyStates, d \in DTs :
        /\ calls < ArtUpdates
        /\ ~twin.raised
        /\ UpdateCall(k, d)
        /\ twin' = update(twin, k, d, platforms)
        /\ UNCHANGED <<running, pc, dt2, agree, sheet, loads, samples, draws, step>>

NextArt == ArtUpdate

SpecArt == InitArt /\ [][NextArt]_vars

----------------------------------------------------------------------------
(* C11 *)

\* C11: a Player with the shipped animations and a Player showing the
\* placeholder, started at the same position and given the same keys and dt,
\* have the same position, velocity and is_on_ground after every update.
C11_GameplayIndependentOfArt ==
    /\ wizard.position = twin.position
    /\ wizard.velocity = twin.velocity
    /\ wizard.is_on_ground = twin.is_on_ground

----------------------------------------------------------------------------
(* main2.py from its first line: spritesheet load, wizard and platform      *)
(* creation, and the game loop one step at a time                           *)

\* main2.py line 71: wizard = None
NoPlayer == [none |-> TRUE]

\* Spritesheet.__init__ that swallows the load error and returns an object
Spritesheet_swallows_error(loadable) ==
    IF loadable THEN [sheet |-> "loaded", raised |-> None]
    ELSE [sheet |-> "failed", raised |-> None]

\* Spritesheet.__init__: pygame.image.load succeeds, or its pygame.error is
\* reported and re-raised as SystemExit
Spritesheet(loadable) ==
    IF loadable THEN [sheet |-> "loaded", raised |-> None]
    ELSE [sheet |-> "failed", raised |-> "SystemExit"]

\* main2.py lines 55-64 (main.py 240-242): any exception of the construction
\* ends in pygame.quit(); exit()
spritesheet_load(loadable) ==
    LET my_spritesheet == Spritesheet(loadable)
    IN  [sheet |-> my_spritesheet.sheet,
         pc |-> IF my_spritesheet.raised # None THEN "aborted" ELSE "create"]

\* "while running" that ignores the flag
loop_continues_always(r) == TRUE

\* main2.py line 162: while running
loop_continues(r) == r

InitProgram ==
    /\ wizard = NoPlayer
    /\ platforms = <<>>
    /\ keys = NoKeys
    /\ dt = 0
    /\ running = TRUE
    /\ pc = "start"
    /\ prev = NoPlayer
    /\ calls = 0
    /\ origin = NoPlayer
    /\ streak = 0
    /\ contact = FALSE
    /\ twin = NoPlayer
    /\ dt2 = 0
    /\ agree = TRUE
    /\ sheet = "unloaded"
    /\ loads = 0
    /\ samples = 0
    /\ draws = 0
    /\ step = "top"
    /\ request = NoRequest
    /\ extracted = <<>>

\* main2.py lines 55-64
LoadSpritesheet ==
    \E loadable \in BOOLEAN :
        /\ pc = "start"
        /\ loads' = loads + 1
        /\ sheet' = spritesheet_load(loadable).sheet
        /\ pc' = spritesheet_load(loadable).pc
        /\ UNCHANGED <<request, extracted, wizard, platforms, keys, dt, running, prev, calls, origin, streak,
                       contact, twin, dt2, agree, samples, draws, step>>

\* main2.py lines 71-124
CreateWizard ==
    \E table \in AnimationTables :
        /\ pc = "create"
        /\ wizard' = Player(table, "idle_front", player_start_pos,
                            PLAYER_ANIMATION_TICKS_PER_FRAME)
        /\ pc' = wizard_creation(wizard')
        /\ platforms' = IF pc' = "loop" THEN create_platforms ELSE platforms
        /\ prev' = wizard'
        /\ origin' = wizard'
        /\ twin' = wizard'
        /\ UNCHANGED <<request, extracted, keys, dt, running, calls, streak, contact, dt2, agree, sheet, loads,
                       samples, draws, step>>

\* main2.py lines 162-172: the loop test, the clock tick and the event pump
Sample ==
    \E quit \in BOOLEAN, d \in DTs :
        /\ pc = "loop" /\ step = "top"
        /\ loop_continues(running)
        /\ samples < MaxFrames
        /\ dt' = d
        /\ running' = (running /\ ~quit)
        /\ samples' = samples + 1
        /\ step' = "update"
        /\ UNCHANGED <<request, extracted, wizard, platforms, keys, pc, prev, calls, origin, streak, contact,
                       twin, dt2, agree, sheet, loads, draws>>

\* main2.py lines 176-179: all_sprites.update(dt, platforms)
UpdateSprites ==
    \E k \in KeyStates :
        /\ step = "update"
        /\ UpdateCall(k, dt)
        /\ step' = "draw"
        /\ UNCHANGED <<running, pc, twin, dt2, agree, sheet, loads, samples, draws>>

\* main2.py lines 186-202: fill, draw, info panel, flip
Render ==
    /\ pc = "loop" /\ step = "draw"
    /\ draws' = draws + 1
    /\ step' = "top"
    /\ UNCHANGED <<request, extracted, wizard, platforms, keys, dt, running, pc, prev, calls, origin, streak,
                   contact, twin, dt2, agree, sheet, loads, samples>>

\* main2.py lines 162 and 205: the loop test fails, pygame.quit()
Exit ==
    /\ pc = "loop" /\ step = "top"
    /\ ~loop_continues(running)
    /\ pc' = "exited"
    /\ UNCHANGED <<request, extracted, wizard, platforms, keys, dt, running, prev, calls, origin, streak,
                   contact, twin, dt2, agree, sheet, loads, samples, draws, step>>

NextProgram == LoadSpritesheet \/ CreateWizard \/ Sample \/ UpdateSprites \/ Render \/ Exit

SpecProgram == InitProgram /\ [][NextProgram]_vars

----------------------------------------------------------------------------
(* C12 *)

\* C12: when the spritesheet image cannot be loaded, the Spritesheet
\* construction raises SystemExit and the program exits before the loop: no
\* Player exists, no update and no render was made, and the load was tried once.
C12_FatalAssetError ==
    /\ Spritesheet(FALSE).raised = "SystemExit"
    /\ loads <= 1
    /\ sheet = "failed"
         => /\ pc = "aborted"
            /\ wizard = NoPlayer
            /\ calls = 0 /\ samples = 0 /\ draws = 0
            /\ loads = 1

C12_Witness == sheet = "failed" /\ pc = "aborted" /\ loads = 1 /\ wizard = NoPlayer

----------------------------------------------------------------------------
(* C13 *)

\* C13 (as claimed): after every update call the position lies in the world:
\* 0 <= position.x <= SCREEN_WIDTH - rect.width and
\* 0 <= position.y <= GAME_AREA_HEIGHT - rect.height.
C13_WorldBounds ==
    calls > 0
        => /\ 0 <= wizard.position.x
           /\ wizard.position.x <= float(SCREEN_WIDTH - wizard.rect.w)
           /\ 0 <= wizard.position.y
           /\ wizard.position.y <= float(GAME_AREA_HEIGHT - wizard.rect.h)

----------------------------------------------------------------------------
(* C14 *)

AllThreeHaveFrames ==
    /\ animations_get(wizard.animations, "walk_left") # <<>>
    /\ animations_get(wizard.animations, "walk_right") # <<>>
    /\ animations_get(wizard.animations, "idle_front") # <<>>

\* C14: with frames for walk_left, walk_right and idle_front, after every
\* update the current animation is walk_right iff the end-of-frame velocity.x
\* exceeds the threshold, walk_left iff it is below minus the threshold, and
\* idle_front otherwise.
C14_AnimationFollowsVelocity ==
    (calls > 0 /\ AllThreeHaveFrames)
        => /\ wizard.current_animation_name = "walk_right"
                <=> wizard.velocity.x * 10 > PLAYER_ANIMATION_VELOCITY_THRESHOLD
           /\ wizard.current_animation_name = "walk_left"
                <=> wizard.velocity.x * 10 < -PLAYER_ANIMATION_VELOCITY_THRESHOLD
           /\ wizard.current_animation_name = "idle_front"
                <=> /\ wizard.velocity.x * 10 <= PLAYER_ANIMATION_VELOCITY_THRESHOLD
                    /\ wizard.velocity.x * 10 >= -PLAYER_ANIMATION_VELOCITY_THRESHOLD

C14_Witness ==
    /\ calls > 0 /\ AllThreeHaveFrames
    /\ keys.right /\ ~keys.left
    /\ LastHitsX # <<>>
    /\ wizard.velocity.x = 0
    /\ prev.current_animation_name = "walk_right"
    /\ wizard.current_animation_name = "idle_front"

----------------------------------------------------------------------------
(* set_animation called on its own, in both versions of the Player *)

\* player.py, Player.set_animation: the fallback found by the for loop is
\* overwritten at lines 117-118, where a missing name raises KeyError
player_set_animation(p, animation_name) ==
    IF p.current_animation_name = animation_name /\ p.current_frames # <<>> THEN p
    ELSE IF p.animations = <<>>
    THEN [install_placeholder(p, "cyan")
             EXCEPT !.current_frames = <<>>, !.current_animation_name = None]
    ELSE LET target_frames == animations_get(p.animations, animation_name)
         IN  IF target_frames # <<>>
             THEN install_frame(reset_cursor(
                      [p EXCEPT !.current_animation_name = animation_name,
                                !.current_frames = target_frames]))
             ELSE IF p.current_frames # <<>> /\ p.current_animation_name # None THEN p
             ELSE LET fb == first_available(p.animations)
                  IN  IF ~fb.found
                      THEN [install_placeholder(p, "yellow")
                               EXCEPT !.current_frames = <<>>,
                                      !.current_animation_name = animation_name]
                      ELSE IF ~animations_has(p.animations, animation_name)
                      THEN [p EXCEPT !.current_animation_name = animation_name,
                                     !.current_frames = fb.frames,
                                     !.raised = TRUE]
                      ELSE install_placeholder(
                               reset_cursor([p EXCEPT !.current_animation_name = animation_name,
                                                      !.current_frames = <<>>]),
                               "magenta")

AnimationNames == {"walk_left", "walk_right", "idle_front"}

\* the keys that select an animation
WalkKeys ==
    { NoKeys, OnlyRight, [left |-> TRUE, right |-> FALSE, up |-> FALSE, down |-> FALSE] }

InitCursor ==
    \/ \E table \in AnimationTables :
           InitWith(table, "idle_front", OpenPosition, 1, NoKeys, 0, 0)
    \/ InitWith(wizard_animations_data, "idle_front", player_start_pos, 2, NoKeys, 0, 0)

CursorUpdate ==
    \E k \in WalkKeys :
        /\ calls < CursorUpdates
        /\ UpdateCall(k, 17)
        /\ twin' = wizard'
        /\ step' = "top"
        /\ UNCHANGED <<running, pc, dt2, agree, sheet, loads, samples, draws>>

\* one call of set_animation between two updates: wizard takes the result of
\* player-copy.py's version, twin the result of player.py's version on the
\* same Player
SetAnimation ==
    \E animation_name \in AnimationNames :
        /\ step = "top"
        /\ ~wizard.raised
        /\ prev' = wizard
        /\ wizard' = set_animation(wizard, animation_name)
        /\ twin' = player_set_animation(wizard, animation_name)
        /\ step' = "set_animation"
        /\ UNCHANGED <<request, extracted, platforms, keys, dt, running, pc, calls, origin, streak, contact,
                       dt2, agree, sheet, loads, samples, draws>>

NextCursor == CursorUpdate \/ SetAnimation

SpecCursor == InitCursor /\ [][NextCursor]_vars

----------------------------------------------------------------------------
(* C15 *)

\* p's animation differs from the one of before and has frames
SwitchedTo(p) ==
    /\ p.current_animation_name # prev.current_animation_name
    /\ p.current_frames # <<>>
    /\ animations_get(p.animations, p.current_animation_name) = p.current_frames

\* C15: whenever a call of set_animation (player-copy.py's or player.py's)
\* leaves the Player with a different current animation that has frames, it
\* leaves current_frame_index = 0 and ticks_since_last_frame_change = 0,
\* whatever they were before.
C15_SwitchResetsCursor ==
    step = "set_animation"
        => /\ SwitchedTo(wizard)
                => /\ wizard.current_frame_index = 0
                   /\ wizard.ticks_since_last_frame_change = 0
           /\ SwitchedTo(twin)
                => /\ twin.current_frame_index = 0
                   /\ twin.ticks_since_last_frame_change = 0

C15_Witness ==
    /\ step = "set_animation"
    /\ SwitchedTo(wizard) /\ SwitchedTo(twin)
    /\ prev.current_frame_index > 0
    /\ prev.ticks_since_last_frame_change > 0
    /\ wizard.current_frame_index = 0 /\ wizard.ticks_since_last_frame_change = 0
    /\ twin.current_frame_index = 0 /\ twin.ticks_since_last_frame_change = 0


----------------------------------------------------------------------------
(* main.py: the first program.  It carries its own Player, which moves in   *)
(* an 800 x 600 window without platforms.  A position is held here in       *)
(* thousandths of a pixel, because 360 px/s during 17 ms is 6.12 px.        *)

main_SCREEN_WIDTH == 800
main_SCREEN_HEIGHT == 600
main_FPS == 60
main_scale_factor == 3
main_animation_velocity_threshold == 5

\* lines 71-72
main_speed_pps == 6 * main_FPS
main_gravity_pps == 5 * main_FPS

\* Python round() on a value held in thousandths: to nearest, ties to even
main_round(t) ==
    LET q == t \div 1000
        r == t % 1000
    IN  IF r < 500 THEN q
        ELSE IF r > 500 THEN q + 1
        ELSE IF q % 2 = 0 THEN q ELSE q + 1

\* the int() pygame applies to a float coordinate handed to get_rect
main_int(t) == IF t >= 0 THEN t \div 1000 ELSE -((-t) \div 1000)

\* pygame.Surface((32*self.scale_factor, 32*self.scale_factor)) with a fill
main_Placeholder(color) ==
    [kind |-> color, x |-> 0, y |-> 0,
     w |-> 32 * main_scale_factor, h |-> 32 * main_scale_factor]

\* Player.load_animations of main.py, lines 89-103
RECURSIVE main_load_animations(_)
main_load_animations(animation_frames_data) ==
    IF animation_frames_data = <<>> THEN <<>>
    ELSE LET e == Head(animation_frames_data)
         IN  <<[name |-> e.name,
                frames |-> get_animation_frames(e.x, e.y, e.w, e.h, e.count, e.spacing,
                                                main_scale_factor * 10)]>>
             \o main_load_animations(Tail(animation_frames_data))

\* "if self.rect is None: self.rect = self.image.get_rect(topleft=self.position)
\*  else: self.rect.size = self.image.get_size()"
main_install_placeholder(p, color) ==
    LET img == main_Placeholder(color)
    IN  [p EXCEPT !.image = img,
                  !.rect = IF p.rect = NoRect
                           THEN get_rect_topleft(img, main_int(p.position.x),
                                                 main_int(p.position.y))
                           ELSE Rect(p.rect.x, p.rect.y, img.w, img.h)]

\* lines 141-148 and 226-233: the frame under the cursor becomes the image
main_install_frame(p) ==
    LET new_image == p.current_frames[p.current_frame_index + 1]
    IN  IF p.rect # NoRect
        THEN [p EXCEPT !.image = new_image,
                       !.rect = get_rect_center(new_image, centerx(p.rect), centery(p.rect))]
        ELSE [p EXCEPT !.image = new_image,
                       !.rect = get_rect_topleft(new_image, main_int(p.position.x),
                                                 main_int(p.position.y))]

\* Player.set_animation of main.py.  Lines 134-139 cannot run: the frames
\* assigned at line 130 passed the test of line 120.
main_set_animation(p, animation_name) ==
    IF p.current_animation_name = animation_name /\ p.current_frames # <<>> THEN p
    ELSE IF p.animations = <<>>
    THEN [main_install_placeholder(p, "cyan")
             EXCEPT !.current_frames = <<>>, !.current_animation_name = None]
    ELSE IF animations_get(p.animations, animation_name) = <<>>
    THEN IF p.current_frames # <<>> /\ p.current_animation_name # None THEN p
         ELSE [main_install_placeholder(p, "yellow")
                  EXCEPT !.current_frames = <<>>, !.current_animation_name = None]
    ELSE main_install_frame(
             [p EXCEPT !.current_animation_name = animation_name,
                       !.current_frames = animations_get(p.animations, animation_name),
                       !.current_frame_index = 0,
                       !.ticks_since_last_frame_change = 0])

\* Player.__init__ of main.py
main_Player(animation_frames_data, initial_animation, position, animation_ticks_per_frame) ==
    LET p0 == [animations |-> main_load_animations(animation_frames_data),
               current_animation_name |-> None,
               current_frames |-> <<>>,
               current_frame_index |-> 0,
               animation_ticks_per_frame |-> animation_ticks_per_frame,
               ticks_since_last_frame_change |-> 0,
               position |-> [x |-> position.x * 1000, y |-> position.y * 1000],
               velocity |-> [x |-> 0, y |-> 0],
               is_on_ground |-> FALSE,
               image |-> NoImage,
               rect |-> NoRect,
               raised |-> FALSE]
    IN  IF initial_animation # None /\ animations_get(p0.animations, initial_animation) # <<>>
        THEN main_set_animation(p0, initial_animation)
        ELSE LET img == main_Placeholder("red")
             IN  [p0 EXCEPT !.image = img,
                            !.rect = get_rect_topleft(img, position.x, position.y)]

\* lines 156-168
main_velocity(k) ==
    [x |-> IF k.left /\ ~k.right THEN -main_speed_pps
           ELSE IF k.right /\ ~k.left THEN main_speed_pps
           ELSE 0,
     y |-> IF k.up THEN -main_speed_pps
           ELSE IF k.down THEN main_speed_pps
           ELSE main_gravity_pps]

\* lines 170-177: v px/s during d ms is v * d thousandths of a pixel
main_move(p, k, d) ==
    LET v == main_velocity(k)
        pos == [x |-> p.position.x + v.x * d, y |-> p.position.y + v.y * d]
        img == IF p.image = NoImage THEN main_Placeholder("orange") ELSE p.image
    IN  [p EXCEPT !.velocity = v,
                  !.position = pos,
                  !.image = img,
                  !.rect = IF p.rect = NoRect
                           THEN get_rect_topleft(img, main_int(pos.x), main_int(pos.y))
                           ELSE Rect(main_round(pos.x), main_round(pos.y),
                                     p.rect.w, p.rect.h)]

\* lines 181-192: every test reads the rect as line 177 left it
main_boundary_corrections(p) ==
    LET r == p.rect
        x1 == IF r.x < 0 THEN p.position.x - r.x * 1000 ELSE p.position.x
        x2 == IF r.x + r.w > main_SCREEN_WIDTH
              THEN x1 - (r.x + r.w - main_SCREEN_WIDTH) * 1000 ELSE x1
        y1 == IF r.y < 0 THEN p.position.y - r.y * 1000 ELSE p.position.y
        low == r.y + r.h > main_SCREEN_HEIGHT
        y2 == IF low THEN y1 - (r.y + r.h - main_SCREEN_HEIGHT) * 1000 ELSE y1
        corrected == r.x < 0 \/ r.x + r.w > main_SCREEN_WIDTH \/ r.y < 0 \/ low
    IN  [p EXCEPT !.position = [x |-> x2, y |-> y2],
                  !.is_on_ground = low,
                  !.rect = IF corrected
                           THEN Rect(main_round(x2), main_round(y2), r.w, r.h)
                           ELSE r]

main_handle_input_and_movement(p, k, d) == main_boundary_corrections(main_move(p, k, d))

\* lines 197-208
main_target_animation(p) ==
    IF p.velocity.x > main_animation_velocity_threshold THEN "walk_right"
    ELSE IF p.velocity.x < -main_animation_velocity_threshold THEN "walk_left"
    ELSE "idle_front"

\* the tick rule that advances only when the count equals the threshold
main_advance_frame_on_equal(p) ==
    LET t == p.ticks_since_last_frame_change + 1
    IN  IF t = p.animation_ticks_per_frame
        THEN LET q == [p EXCEPT !.ticks_since_last_frame_change = 0,
                                !.current_frame_index =
                                    (p.current_frame_index + 1) % Len(p.current_frames)]
             IN  IF q.current_frame_index < Len(q.current_frames)
                 THEN main_install_frame(q) ELSE q
        ELSE [p EXCEPT !.ticks_since_last_frame_change = t]

\* lines 220-233: the tick rule
main_advance_frame(p) ==
    LET t == p.ticks_since_last_frame_change + 1
    IN  IF t >= p.animation_ticks_per_frame
        THEN LET q == [p EXCEPT !.ticks_since_last_frame_change = 0,
                                !.current_frame_index =
                                    (p.current_frame_index + 1) % Len(p.current_frames)]
             IN  IF q.current_frame_index < Len(q.current_frames)
                 THEN main_install_frame(q) ELSE q
        ELSE [p EXCEPT !.ticks_since_last_frame_change = t]

main_update_animation(p) ==
    LET q == IF p.current_animation_name # main_target_animation(p) \/ p.current_frames = <<>>
             THEN main_set_animation(p, main_target_animation(p))
             ELSE p
    IN  IF q.current_frames = <<>>
        THEN IF q.image = NoImage
             THEN LET img == main_Placeholder("blue")
                  IN  [q EXCEPT !.image = img,
                                !.rect = IF q.rect = NoRect
                                         THEN get_rect_topleft(img, main_int(q.position.x),
                                                               main_int(q.position.y))
                                         ELSE q.rect]
             ELSE q
        ELSE main_advance_frame(q)

\* Player.update(dt) of main.py
main_update(p, k, d) == main_update_animation(main_handle_input_and_movement(p, k, d))

\* main.py lines 244-248
main_wizard_animations_data ==
    << [name |-> "walk_left", x |-> 0, y |-> 75, w |-> 24, h |-> 24, count |-> 4,
        spacing |-> 1],
       [name |-> "idle_front", x |-> 100, y |-> 75, w |-> 24, h |-> 24, count |-> 4,
        spacing |-> 1],
       [name |-> "walk_right", x |-> 200, y |-> 75, w |-> 24, h |-> 24, count |-> 4,
        spacing |-> 1] >>

\* main.py line 250
main_player_start_pos ==
    [x |-> main_SCREEN_WIDTH \div 3, y |-> main_SCREEN_HEIGHT \div 2]

----------------------------------------------------------------------------
(* main.py: the loop, with the keys 1, 2 and 3 that retune the animation *)

TuneFrames == 8     \* loop iterations of main.py explored

\* the KEYDOWN events of one frame: none, K_1, K_2 or K_3
TuneEvents == {"none", "K_1", "K_2", "K_3"}

\* a retuning that also rewinds the animation
on_keydown_rewinds(p, key) ==
    IF key = "none" THEN p
    ELSE [p EXCEPT !.animation_ticks_per_frame =
                       IF key = "K_1" THEN 7 ELSE IF key = "K_2" THEN 8 ELSE 6,
                   !.current_frame_index = 0]

\* lines 278-287
on_keydown(p, key) ==
    IF key = "K_1" THEN [p EXCEPT !.animation_ticks_per_frame = 7]
    ELSE IF key = "K_2" THEN [p EXCEPT !.animation_ticks_per_frame = 8]
    ELSE IF key = "K_3" THEN [p EXCEPT !.animation_ticks_per_frame = 6]
    ELSE p

\* the state at "running = True", line 264
InitTune ==
    /\ wizard = main_Player(main_wizard_animations_data, "idle_front",
                            main_player_start_pos, 7)
    /\ platforms = <<>>
    /\ keys = NoKeys
    /\ dt = 0
    /\ running = TRUE
    /\ pc = "loop"
    /\ prev = wizard
    /\ calls = 0
    /\ origin = wizard
    /\ streak = 0
    /\ contact = FALSE
    /\ twin = wizard
    /\ dt2 = 0
    /\ agree = TRUE
    /\ Loaded

\* lines 266-287: the loop test, the clock tick and the event queue
TuneEventsStep ==
    \E quit \in BOOLEAN, key \in TuneEvents :
        /\ pc = "loop" /\ step = "top"
        /\ running
        /\ samples < TuneFrames
        /\ dt' = 17
        /\ running' = ~quit
        /\ wizard' = on_keydown(wizard, key)
        /\ twin' = wizard
        /\ samples' = samples + 1
        /\ step' = "update"
        /\ UNCHANGED <<request, extracted, platforms, keys, pc, prev, calls, origin, streak, contact, dt2,
                       agree, sheet, loads, draws>>

\* line 291: all_sprites.update(dt)
TuneUpdate ==
    \E k \in {NoKeys, OnlyRight} :
        /\ pc = "loop" /\ step = "update"
        /\ wizard' = main_update(wizard, k, dt)
        /\ keys' = k
        /\ prev' = wizard
        /\ calls' = calls + 1
        /\ step' = "draw"
        /\ UNCHANGED <<request, extracted, platforms, dt, running, pc, origin, streak, contact, twin, dt2,
                       agree, sheet, loads, samples, draws>>

\* lines 292-301
TuneRender ==
    /\ pc = "loop" /\ step = "draw"
    /\ draws' = draws + 1
    /\ step' = "top"
    /\ UNCHANGED <<request, extracted, wizard, platforms, keys, dt, running, pc, prev, calls, origin, streak,
                   contact, twin, dt2, agree, sheet, loads, samples>>

\* lines 266 and 303
TuneExit ==
    /\ pc = "loop" /\ step = "top"
    /\ ~running
    /\ pc' = "exited"
    /\ UNCHANGED <<request, extracted, wizard, platforms, keys, dt, running, prev, calls, origin, streak,
                   contact, twin, dt2, agree, sheet, loads, samples, draws, step>>

NextTune == TuneEventsStep \/ TuneUpdate \/ TuneRender \/ TuneExit

SpecTune == InitTune /\ [][NextTune]_vars

\* the update of this step kept the animation and moved the cursor on
TuneAdvanced ==
    /\ wizard'.ticks_since_last_frame_change = 0
    /\ wizard'.current_frame_index =
           (wizard.current_frame_index + 1) % Len(wizard.current_frames)

TuneHeld ==
    /\ wizard'.ticks_since_last_frame_change = wizard.ticks_since_last_frame_change + 1
    /\ wizard'.current_frame_index = wizard.current_frame_index

\* C16: retuning animation_ticks_per_frame between two update calls changes
\* neither current_frame_index nor current_animation_name, and the update call
\* that follows advances the frame exactly when the ticks counted so far,
\* plus one, reach the new value.
C16_RuntimeTuning ==
    [][ /\ (step = "top" /\ step' = "update") =>
            /\ wizard'.current_frame_index = wizard.current_frame_index
            /\ wizard'.current_animation_name = wizard.current_animation_name
        /\ (/\ step = "update" /\ step' = "draw"
            /\ wizard'.current_animation_name = wizard.current_animation_name) =>
            IF wizard.ticks_since_last_frame_change + 1 >= wizard.animation_ticks_per_frame
            THEN TuneAdvanced ELSE TuneHeld ]_vars

\* K_3 was pressed with five ticks counted under 7 ticks per frame, and the
\* update call that followed advanced the frame at the sixth tick
C16_Witness ==
    /\ step = "draw"
    /\ twin.animation_ticks_per_frame = 7
    /\ prev.animation_ticks_per_frame = 6
    /\ prev.ticks_since_last_frame_change = 5
    /\ wizard.current_animation_name = prev.current_animation_name
    /\ wizard.current_frame_index = prev.current_frame_index + 1
    /\ wizard.ticks_since_last_frame_change = 0

----------------------------------------------------------------------------
(* C17 *)

\* C17: no Player.update call changes a platform: after every update the
\* platform group holds the platforms of world setup, each with the rect
\* (x, y, width, height) it was created with, and none has been removed.
C17_PlatformsImmutable ==
    /\ Len(platforms) = Len(create_platforms)
    /\ \A i \in 1..Len(create_platforms) : platforms[i].rect = create_platforms[i].rect

\* an update whose two collision checks both hit a platform, all three
\* platforms being still in place
C17_Witness ==
    /\ calls > 0
    /\ LastHitsX # <<>>
    /\ LastHitsY # <<>>
    /\ platforms = create_platforms

----------------------------------------------------------------------------
(* C18 *)

\* where the loop stands, against the samples, updates and renders made so far
C18_Order ==
    pc \in {"loop", "exited"}
        => /\ step = "top" => samples = calls /\ draws = calls
           /\ step = "update" => samples = calls + 1 /\ draws = calls
           /\ step = "draw" => samples = calls /\ draws + 1 = calls
           /\ pc = "exited" => step = "top" /\ ~running

C18_Steps ==
    /\ samples' # samples => step = "top" /\ step' = "update" /\ samples' = samples + 1
    /\ calls' # calls => step = "update" /\ step' = "draw" /\ calls' = calls + 1
    /\ draws' # draws => step = "draw" /\ step' = "top" /\ draws' = draws + 1
    /\ ~running => samples' = samples /\ ~running'
    /\ pc = "loop" /\ pc' # "loop" => pc' = "exited" /\ ~running

----------------------------------------------------------------------------
(* C19 *)

\* the rect's bottom lies exactly on the top of a platform it horizontally
\* overlaps, or exactly on the floor of the playable area
Resting(p, group) ==
    /\ p.rect # NoRect
    /\ \/ \E i \in 1..Len(group) :
              /\ p.rect.y + p.rect.h = group[i].rect.y
              /\ p.rect.x < group[i].rect.x + group[i].rect.w
              /\ p.rect.x + p.rect.w > group[i].rect.x
       \/ p.rect.y + p.rect.h = GAME_AREA_HEIGHT

\* C19: after every update call that ends with the rect resting on a platform
\* or on the floor, is_on_ground is true (so a player left standing with no
\* input stays grounded in every later frame).
C19_GroundedMeansResting ==
    (calls > 0 /\ Resting(wizard, platforms)) => wizard.is_on_ground

----------------------------------------------------------------------------
(* C20 *)

Last(s) == s[Len(s)]

\* the rect's edge is the one a correction against this platform dictates for a
\* rect that entered the pass with velocity v on the axis
ClampedX(r, v, platform) ==
    IF v > 0 THEN r.x + r.w = platform.rect.x ELSE r.x = platform.rect.x + platform.rect.w
ClampedY(r, v, platform) ==
    IF v > 0 THEN r.y + r.h = platform.rect.y ELSE r.y = platform.rect.y + platform.rect.h

\* the horizontal (vertical) pass of the last update found two or more
\* platforms under a rect that was moving on that axis
LastManyX == calls > 0 /\ Len(LastHitsX) >= 2 /\ LastMoved.velocity.x # 0
LastManyY == calls > 0 /\ Len(LastHitsY) >= 2 /\ LastAfterX.velocity.y # 0

\* C20 (as claimed): when a collision pass finds the rect overlapping two or
\* more platforms, the pass ends with the rect's edge clamped as the last
\* platform of the hit list dictates.
C20_LastHitWins ==
    /\ LastManyX => ClampedX(LastAfterX.rect, LastMoved.velocity.x, Last(LastHitsX))
    /\ LastManyY => ClampedY(LastCollided.rect, LastAfterX.velocity.y, Last(LastHitsY))

\* C20 (amended): when a collision pass finds the rect overlapping two or more
\* platforms, only the first hit of the list is corrected (the correction
\* zeroes the velocity on that axis, so the later hits move nothing): the pass
\* ends with the rect's edge clamped as the first platform of the hit list
\* dictates, the position synced to it and the velocity on that axis zero.
C20_FirstHitWins ==
    /\ LastManyX =>
           /\ ClampedX(LastAfterX.rect, LastMoved.velocity.x, Head(LastHitsX))
           /\ LastAfterX.position.x = float(LastAfterX.rect.x)
           /\ LastAfterX.velocity.x = 0
    /\ LastManyY =>
           /\ ClampedY(LastCollided.rect, LastAfterX.velocity.y, Head(LastHitsY))
           /\ LastCollided.position.y = float(LastCollided.rect.y)
           /\ LastCollided.velocity.y = 0

\* a falling rect found over the ground platform and a floating platform at
\* once, and left on the top of the ground platform, the first of the two
C20_Witness ==
    /\ LastManyY
    /\ LastAfterX.velocity.y > 0
    /\ Head(LastHitsY).rect.y # Last(LastHitsY).rect.y
    /\ LastCollided.rect.y + LastCollided.rect.h = Head(LastHitsY).rect.y
    /\ LastCollided.is_on_ground

----------------------------------------------------------------------------
(* C21 *)

\* the vertical pass of the last update found a platform under a rect that
\* was moving down (up)
LastHitDown == calls > 0 /\ LastHitsY # <<>> /\ LastAfterX.velocity.y > 0
LastHitUp == calls > 0 /\ LastHitsY # <<>> /\ LastAfterX.velocity.y < 0

\* C21 (as claimed): an update whose vertical pass finds the rect overlapping a
\* platform ends, when the player was moving down, with rect.bottom equal to
\* the platform's top, is_on_ground true and velocity.y = 0, and when it was
\* moving up, with rect.top equal to the platform's bottom, velocity.y = 0 and
\* is_on_ground false unless the floor boundary set it.
C21_ClampEndsAtPlatformEdge ==
    /\ LastHitDown =>
           /\ \E i \in 1..Len(LastHitsY) :
                  wizard.rect.y + wizard.rect.h = LastHitsY[i].rect.y
           /\ wizard.is_on_ground
           /\ wizard.velocity.y = 0
    /\ LastHitUp =>
           /\ \E i \in 1..Len(LastHitsY) :
                  wizard.rect.y = LastHitsY[i].rect.y + LastHitsY[i].rect.h
           /\ wizard.velocity.y = 0
           /\ wizard.is_on_ground => LastFloorClamp

\* C21 (amended): such an update ends with velocity.y = 0.  Moving down, it
\* ends with is_on_ground true, and with rect.bottom equal to the top of the
\* first platform hit whenever that top lies at least one rect height inside
\* the playable area and the frame swap of the same call keeps the rect's
\* height.  Moving up, when the first platform's bottom leaves room for the
\* rect above the floor, it ends with is_on_ground false, and with rect.top
\* equal to that bottom whenever the frame swap keeps the rect's height; when
\* there is no room, the floor clamp that follows ends the update at
\* position.y = GAME_AREA_HEIGHT - rect.height with is_on_ground true.
C21_VerticalClamp ==
    /\ LastHitDown =>
           /\ wizard.velocity.y = 0
           /\ wizard.is_on_ground
           /\ (/\ Head(LastHitsY).rect.y >= LastCollided.rect.h
               /\ Head(LastHitsY).rect.y <= GAME_AREA_HEIGHT
               /\ wizard.rect.h = LastCollided.rect.h)
                  => /\ wizard.rect.y + wizard.rect.h = Head(LastHitsY).rect.y
                     /\ wizard.position.y = float(Head(LastHitsY).rect.y - wizard.rect.h)
    /\ LastHitUp =>
           LET bottom == Head(LastHitsY).rect.y + Head(LastHitsY).rect.h
           IN  /\ wizard.velocity.y = 0
               /\ (bottom >= 0 /\ bottom + LastCollided.rect.h <= GAME_AREA_HEIGHT)
                      => /\ ~wizard.is_on_ground
                         /\ wizard.rect.h = LastCollided.rect.h => wizard.rect.y = bottom
               /\ bottom + LastCollided.rect.h > GAME_AREA_HEIGHT
                      => /\ wizard.is_on_ground
                         /\ wizard.position.y = float(GAME_AREA_HEIGHT - LastCollided.rect.h)

\* a rising rect struck the underside of a floating platform, with room above
\* the floor, and the update left its top on the platform's bottom
C21_Witness ==
    /\ LastHitUp
    /\ Head(LastHitsY).rect.y + Head(LastHitsY).rect.h + LastCollided.rect.h <= GAME_AREA_HEIGHT
    /\ wizard.rect.y = Head(LastHitsY).rect.y + Head(LastHitsY).rect.h
    /\ wizard.velocity.y = 0
    /\ ~wizard.is_on_ground

----------------------------------------------------------------------------
(* C22 *)

\* the vertical velocity the claim prescribes for the last update, from the
\* keys held and the grounded flag the update began with
C22_Expected ==
    IF keys.up THEN -PLAYER_SPEED_PPS
    ELSE IF keys.down THEN PLAYER_SPEED_PPS
    ELSE IF prev.is_on_ground THEN 0
    ELSE PLAYER_GRAVITY_PPS

\* C22: the vertical velocity an update integrates with is -speed_pps when up
\* is held (also with down held), +speed_pps when only down is held, 0 when
\* neither is held and is_on_ground was true at the start of the update, and
\* gravity_pps otherwise, whatever the velocity of the previous frame was.
C22_VerticalVelocityRule ==
    calls > 0
        => /\ LastMoved.velocity.y = C22_Expected
           /\ LastMoved.position.y = prev.position.y + Displacement(C22_Expected, dt)

\* up and down were held together by a player that was falling at gravity
\* speed, and the update integrated with -speed_pps
C22_Witness ==
    /\ calls > 0
    /\ keys.up /\ keys.down
    /\ prev.velocity.y = PLAYER_GRAVITY_PPS
    /\ ~prev.is_on_ground
    /\ LastMoved.velocity.y = -PLAYER_SPEED_PPS
    /\ LastMoved.position.y < prev.position.y

----------------------------------------------------------------------------
(* player.py: the earlier Player, which moves without platforms and clamps  *)
(* its rect to the whole window                                             *)

\* Player.__init__ of player.py
player_Player(animation_frames_data, initial_animation, position, animation_ticks_per_frame) ==
    LET p0 == [animations |-> load_animations(animation_frames_data),
               current_animation_name |-> None,
               current_frames |-> <<>>,
               current_frame_index |-> 0,
               animation_ticks_per_frame |-> animation_ticks_per_frame,
               ticks_since_last_frame_change |-> 0,
               position |-> [x |-> float(position.x), y |-> float(position.y)],
               velocity |-> [x |-> 0, y |-> 0],
               is_on_ground |-> FALSE,
               image |-> NoImage,
               rect |-> NoRect,
               raised |-> FALSE]
    IN  IF initial_animation # None /\ animations_get(p0.animations, initial_animation) # <<>>
        THEN player_set_animation(p0, initial_animation)
        ELSE LET img == Placeholder("red")
             IN  [p0 EXCEPT !.image = img,
                            !.rect = get_rect_topleft(img, position.x, position.y)]

\* lines 147-155
player_horizontal_velocity(k) ==
    IF k.left /\ ~k.right THEN -PLAYER_SPEED_PPS
    ELSE IF k.right /\ ~k.left THEN PLAYER_SPEED_PPS
    ELSE 0

\* lines 157-162
player_vertical_velocity(k) ==
    IF k.up THEN -PLAYER_SPEED_PPS
    ELSE IF k.down THEN PLAYER_SPEED_PPS
    ELSE PLAYER_GRAVITY_PPS

\* lines 145-178: velocity, integration, and the rect put at the rounded position
player_move(p, k, d) ==
    LET vx == player_horizontal_velocity(k)
        vy == player_vertical_velocity(k)
        pos == [x |-> p.position.x + Displacement(vx, d),
                y |-> p.position.y + Displacement(vy, d)]
        img == IF p.image # NoImage THEN p.image
               ELSE IF p.current_frame_index < Len(p.current_frames)
               THEN p.current_frames[p.current_frame_index + 1]
               ELSE Placeholder("orange")
        size == IF p.rect # NoRect THEN p.rect ELSE img
    IN  [p EXCEPT !.velocity = [x |-> vx, y |-> vy],
                  !.position = pos,
                  !.image = img,
                  !.rect = Rect(round(pos.x), round(pos.y), size.w, size.h)]

\* lines 180-201: every test reads the rect as line 178 left it; the floor is
\* SCREEN_HEIGHT
player_boundary_corrections(p) ==
    LET r == p.rect
        x1 == IF r.x < 0 THEN p.position.x - float(r.x) ELSE p.position.x
        x2 == IF r.x + r.w > SCREEN_WIDTH
              THEN x1 - float(r.x + r.w - SCREEN_WIDTH) ELSE x1
        y1 == IF r.y < 0 THEN p.position.y - float(r.y) ELSE p.position.y
        low == r.y + r.h > SCREEN_HEIGHT
        y2 == IF low THEN y1 - float(r.y + r.h - SCREEN_HEIGHT) ELSE y1
        corrected == r.x < 0 \/ r.x + r.w > SCREEN_WIDTH \/ r.y < 0 \/ low
    IN  [p EXCEPT !.position = [x |-> x2, y |-> y2],
                  !.is_on_ground = low,
                  !.velocity.y = IF low THEN 0 ELSE p.velocity.y,
                  !.rect = IF corrected THEN Rect(round(x2), round(y2), r.w, r.h) ELSE r]

player_handle_input_and_movement(p, k, d) == player_boundary_corrections(player_move(p, k, d))

\* Player.update_animation of player.py; its target and its tick rule (lines
\* 207-220 and 232-247) read as those of player-copy.py
player_update_animation(p) ==
    LET q == IF p.current_animation_name # target_animation(p) \/ p.current_frames = <<>>
             THEN player_set_animation(p, target_animation(p))
             ELSE p
    IN  IF q.raised THEN q
        ELSE IF q.current_frames = <<>>
        THEN IF q.image = NoImage
             THEN LET img == Placeholder("blue")
                  IN  [q EXCEPT !.image = img,
                                !.rect = IF q.rect = NoRect
                                         THEN get_rect_topleft(img, round(q.position.x),
                                                               round(q.position.y))
                                         ELSE q.rect]
             ELSE q
        ELSE advance_frame(q)

\* Player.update(dt) of player.py
player_update(p, k, d) == player_update_animation(player_handle_input_and_movement(p, k, d))

----------------------------------------------------------------------------
(* The two versions of the Player side by side: wizard is player-copy.py's, *)
(* twin is player.py's, origin is twin before its last update.  Both are    *)
(* built from the same arguments and see the same keys and dt.              *)

DraftUpdates == 2   \* update calls explored with the two versions side by side

DraftPositions ==
    { player_start_pos, OpenPosition, [x |-> 3, y |-> 3], [x |-> 885, y |-> 100],
      [x |-> 285, y |-> 300] }

InitDraft ==
    \E table \in {wizard_animations_data, NoWalkRightTable, ShortClipTable},
       pos \in DraftPositions :
        /\ wizard = Player(table, "idle_front", pos, 2)
        /\ twin = player_Player(table, "idle_front", pos, 2)
        /\ origin = twin
        /\ platforms = create_platforms
        /\ keys = NoKeys
        /\ dt = 0
        /\ dt2 = 0
        /\ running = TRUE
        /\ pc = "loop"
        /\ prev = wizard
        /\ calls = 0
        /\ streak = 0
        /\ contact = FALSE
        /\ agree = TRUE
        /\ Loaded

DraftUpdate ==
    \E k \in KeyStates, d \in DTs :
        /\ calls < DraftUpdates
        /\ ~twin.raised
        /\ wizard' = update(wizard, k, d, platforms)
        /\ twin' = player_update(twin, k, d)
        /\ origin' = twin
        /\ prev' = wizard
        /\ keys' = k
        /\ dt' = d
        /\ calls' = calls + 1
        /\ platforms' = update_platforms(wizard, k, d, platforms)
        /\ UNCHANGED <<request, extracted, running, pc, streak, contact, dt2, agree, sheet, loads, samples,
                       draws, step>>

NextDraft == DraftUpdate

SpecDraft == InitDraft /\ [][NextDraft]_vars

----------------------------------------------------------------------------
(* C23 *)

\* the horizontal velocity the claim prescribes for the last update
C23_Expected ==
    IF keys.right /\ ~keys.left THEN PLAYER_SPEED_PPS
    ELSE IF keys.left /\ ~keys.right THEN -PLAYER_SPEED_PPS
    ELSE 0

\* the draft Player after the input and integration step of its last update
DraftMoved == player_move(origin, keys, dt)

\* C23: in both versions of the Player the horizontal velocity an update
\* integrates with is +speed_pps when right is held and left is not,
\* -speed_pps when left is held and right is not, and 0 when both or neither
\* are held, whatever the velocity of the previous frame was.
C23_HorizontalVelocityRule ==
    calls > 0
        => /\ LastMoved.velocity.x = C23_Expected
           /\ LastMoved.position.x = prev.position.x + Displacement(C23_Expected, dt)
           /\ DraftMoved.velocity.x = C23_Expected
           /\ DraftMoved.position.x = origin.position.x + Displacement(C23_Expected, dt)

\* the update before ended with velocity.x zeroed by a platform, right is held
\* again, and this update integrated with the full speed
C23_Witness ==
    /\ calls > 1
    /\ keys.right /\ ~keys.left
    /\ prev.velocity.x = 0
    /\ prev.position.x = float(prev.rect.x)
    /\ \E i \in 1..Len(platforms) :
           /\ prev.rect.x + prev.rect.w = platforms[i].rect.x
           /\ prev.rect.y < platforms[i].rect.y + platforms[i].rect.h
           /\ prev.rect.y + prev.rect.h > platforms[i].rect.y
    /\ LastMoved.velocity.x = PLAYER_SPEED_PPS
    /\ LastMoved.position.x = prev.position.x + Displacement(PLAYER_SPEED_PPS, dt)
    /\ DraftMoved.velocity.x = PLAYER_SPEED_PPS

----------------------------------------------------------------------------
(* The Player near the corners of a floating platform *)

CornerUpdates == 2   \* update calls explored near a platform corner

\* above and left of floating platform 1, below and left of it, above and
\* right of it, and standing left of it
CornerPositions ==
    { [x |-> 285, y |-> 262], [x |-> 285, y |-> 362], [x |-> 555, y |-> 262],
      [x |-> 285, y |-> 300] }

InitCorner ==
    \E table \in {wizard_animations_data, <<>>}, pos \in CornerPositions :
        InitWith(table, "idle_front", pos, 2, NoKeys, 0, 0)

CornerUpdate ==
    \E k \in KeyStates, d \in DTs :
        /\ calls < CornerUpdates
        /\ UpdateCall(k, d)
        /\ UNCHANGED <<running, pc, twin, dt2, agree, sheet, loads, samples, draws, step>>

NextCorner == CornerUpdate

SpecCorner == InitCorner /\ [][NextCorner]_vars

----------------------------------------------------------------------------
(* C24 *)

Overlaps(r, group) == \E i \in 1..Len(group) : colliderect(r, group[i].rect)

\* the rect of the last update at its new x and the previous frame's y, and at
\* its new x and new y
RectNewXOldY ==
    Rect(round(LastMoved.position.x), prev.rect.y, prev.rect.w, prev.rect.h)
RectNewXNewY ==
    Rect(round(LastMoved.position.x), round(LastMoved.position.y), prev.rect.w, prev.rect.h)

\* the last update moved diagonally into a platform that the rect overlaps
\* only because of the vertical displacement
DiagonalEntry ==
    /\ calls > 0
    /\ LastMoved.velocity.x # 0 /\ LastMoved.velocity.y # 0
    /\ ~Overlaps(RectNewXOldY, platforms)
    /\ Overlaps(RectNewXNewY, platforms)

\* C24: the horizontal pass runs first, on the rect at its new x and the
\* previous frame's y: when a player moving diagonally overlaps a platform only
\* because of this frame's vertical displacement, the horizontal pass corrects
\* nothing and keeps velocity.x, and the vertical pass alone resolves the
\* overlap.
C24_PassOrdering ==
    DiagonalEntry
        => /\ LastHitsX = <<>>
           /\ LastCollided.velocity.x = LastMoved.velocity.x
           /\ LastCollided.position.x = LastMoved.position.x
           /\ LastCollided.rect.x = round(LastMoved.position.x)
           /\ LastHitsY # <<>>
           /\ LastCollided.velocity.y = 0
           /\ ~Overlaps(LastCollided.rect, platforms)

\* a player above and left of a floating platform moved down and right into
\* its corner: at the previous x it would have missed the platform
C24_Witness ==
    /\ DiagonalEntry
    /\ LastMoved.velocity.x > 0 /\ LastMoved.velocity.y > 0
    /\ ~Overlaps(Rect(prev.rect.x, round(LastMoved.position.y), prev.rect.w, prev.rect.h),
                 platforms)
    /\ LastCollided.is_on_ground
    /\ wizard.position.x > prev.position.x

----------------------------------------------------------------------------
(* The Player at the edges of the world *)

EdgeUpdates == 2   \* update calls explored at the world's edges

\* near the right edge, in the top left corner, with the rect's bottom and
\* with the whole rect below the playable area
EdgePositions ==
    { [x |-> 885, y |-> 100], [x |-> 3, y |-> 3], [x |-> 600, y |-> 365],
      [x |-> 600, y |-> 460] }

InitEdge ==
    \E table \in {wizard_animations_data, <<>>, MixedSizeTable}, pos \in EdgePositions :
        InitWith(table, "idle_front", pos, 2, NoKeys, 0, 0)

EdgeUpdate ==
    \E k \in KeyStates, d \in DTs :
        /\ calls < EdgeUpdates
        /\ UpdateCall(k, d)
        /\ UNCHANGED <<running, pc, twin, dt2, agree, sheet, loads, samples, draws, step>>

NextEdge == EdgeUpdate

SpecEdge == InitEdge /\ [][NextEdge]_vars

----------------------------------------------------------------------------
(* C25 *)

\* the Player of the last update after its boundary step
LastBounded == bounded(prev, keys, dt, platforms)

\* which edge the boundary step of the last update clamped at
AtLeft == LastCollided.position.x < 0
AtRight ==
    ~AtLeft /\ LastCollided.position.x + float(LastCollided.rect.w) > float(SCREEN_WIDTH)
AtTop == LastCollided.position.y < 0
AtBottom ==
    ~AtTop /\ LastCollided.position.y + float(LastCollided.rect.h) > float(GAME_AREA_HEIGHT)

\* C25: a clamp at the left, right or top edge zeroes the velocity component
\* of its axis only when it points out of the world and otherwise leaves it as
\* it was; a clamp at the bottom sets is_on_ground and zeroes velocity.y only
\* when it is downward; an axis that is not clamped keeps its position and
\* velocity, and is_on_ground changes only at the bottom.
C25_OutwardOnly ==
    calls > 0 =>
        LET c == LastCollided
            b == LastBounded
        IN  /\ AtLeft =>
                   /\ b.position.x = 0
                   /\ b.velocity.x = (IF c.velocity.x < 0 THEN 0 ELSE c.velocity.x)
            /\ AtRight =>
                   /\ b.position.x = float(SCREEN_WIDTH - c.rect.w)
                   /\ b.velocity.x = (IF c.velocity.x > 0 THEN 0 ELSE c.velocity.x)
            /\ (~AtLeft /\ ~AtRight) =>
                   /\ b.position.x = c.position.x
                   /\ b.velocity.x = c.velocity.x
            /\ AtTop =>
                   /\ b.position.y = 0
                   /\ b.velocity.y = (IF c.velocity.y < 0 THEN 0 ELSE c.velocity.y)
                   /\ b.is_on_ground = c.is_on_ground
            /\ AtBottom =>
                   /\ b.position.y = float(GAME_AREA_HEIGHT - c.rect.h)
                   /\ b.velocity.y = (IF c.velocity.y > 0 THEN 0 ELSE c.velocity.y)
                   /\ b.is_on_ground
            /\ (~AtTop /\ ~AtBottom) =>
                   /\ b.position.y = c.position.y
                   /\ b.velocity.y = c.velocity.y
                   /\ b.is_on_ground = c.is_on_ground

\* a player below the floor flew upwards and was clamped at the bottom: it is
\* grounded and keeps its upward velocity, and its x axis is untouched
C25_Witness ==
    /\ calls > 0
    /\ AtBottom
    /\ LastCollided.velocity.y < 0
    /\ LastBounded.velocity.y = LastCollided.velocity.y
    /\ LastBounded.is_on_ground /\ ~LastCollided.is_on_ground
    /\ LastCollided.velocity.x # 0
    /\ LastBounded.velocity.x = LastCollided.velocity.x

----------------------------------------------------------------------------
(* C26 *)

\* the animation the velocity resolved by the last update selects
LastTarget ==
    IF wizard.velocity.x * 10 > PLAYER_ANIMATION_VELOCITY_THRESHOLD THEN "walk_right"
    ELSE IF wizard.velocity.x * 10 < -PLAYER_ANIMATION_VELOCITY_THRESHOLD THEN "walk_left"
    ELSE "idle_front"

\* the last update found its target animation already playing, with frames
SameTarget ==
    /\ calls > 0
    /\ prev.current_animation_name = LastTarget
    /\ prev.current_frames # <<>>

\* C26: an update whose target animation is the current one, the current one
\* having frames, resets nothing: name and frames stay, and the frame index
\* and the tick counter continue from their previous values by the tick rule
\* alone (one more tick, or the wrap to the next frame with the counter at 0).
C26_NoResetWithoutChange ==
    SameTarget
        => /\ wizard.current_animation_name = prev.current_animation_name
           /\ wizard.current_frames = prev.current_frames
           /\ IF prev.ticks_since_last_frame_change + 1 >= prev.animation_ticks_per_frame
              THEN /\ wizard.ticks_since_last_frame_change = 0
                   /\ wizard.current_frame_index
                          = (prev.current_frame_index + 1) % Len(prev.current_frames)
              ELSE /\ wizard.ticks_since_last_frame_change
                          = prev.ticks_since_last_frame_change + 1
                   /\ wizard.current_frame_index = prev.current_frame_index

\* the third frame of the walk was showing with ticks counted, the player kept
\* walking, and the update only counted one more tick
C26_Witness ==
    /\ SameTarget
    /\ prev.current_animation_name = "walk_right"
    /\ prev.current_frame_index = 2
    /\ prev.ticks_since_last_frame_change > 0
    /\ wizard.current_frame_index = 2
    /\ wizard.ticks_since_last_frame_change = prev.ticks_since_last_frame_change + 1

----------------------------------------------------------------------------
(* C27 *)

\* the Player of the last update as update_animation received it
LastResolved == resolved(prev, keys, dt, platforms)

\* the last update selected a target that is missing or empty while an
\* animation with frames was playing
UnusableTarget ==
    /\ calls > 0
    /\ prev.current_frames # <<>>
    /\ prev.current_animation_name # None
    /\ prev.current_animation_name # LastTarget
    /\ \A i \in 1..Len(prev.animations) :
           prev.animations[i].name = LastTarget => prev.animations[i].frames = <<>>

\* C27: when the target animation is missing or empty while an animation with
\* frames is playing, set_animation changes nothing (name, frames, frame index
\* and tick counter stay), and the update goes on to advance the current
\* animation by the tick rule, in every update in which the target is unusable.
C27_UnusableTargetKeepsCurrent ==
    UnusableTarget
        => /\ set_animation(LastResolved, LastTarget) = LastResolved
           /\ wizard.current_animation_name = prev.current_animation_name
           /\ wizard.current_frames = prev.current_frames
           /\ IF prev.ticks_since_last_frame_change + 1 >= prev.animation_ticks_per_frame
              THEN /\ wizard.ticks_since_last_frame_change = 0
                   /\ wizard.current_frame_index
                          = (prev.current_frame_index + 1) % Len(prev.current_frames)
              ELSE /\ wizard.ticks_since_last_frame_change
                          = prev.ticks_since_last_frame_change + 1
                   /\ wizard.current_frame_index = prev.current_frame_index

\* walk_right is missing from the table, right has been held for several
\* updates, and idle_front has moved on to its second frame meanwhile
C27_Witness ==
    /\ UnusableTarget
    /\ keys.right /\ ~keys.left
    /\ LastTarget = "walk_right"
    /\ prev.current_animation_name = "idle_front"
    /\ wizard.current_animation_name = "idle_front"
    /\ streak > wizard.animation_ticks_per_frame
    /\ prev.current_frame_index = 0
    /\ wizard.current_frame_index = 1

\* ---------------------------------------------------------------------------
\* Missing and empty entries of the animations mapping (player-copy.py 43-100)
\* ---------------------------------------------------------------------------

\* the mapping with no entry under name
WithoutEntry(animations, name) == SelectSeq(animations, LAMBDA e : e.name # name)

\* the mapping with an empty sequence stored under name
WithEmptyEntry(animations, name) ==
    IF animations_has(animations, name)
    THEN [i \in 1..Len(animations) |->
              IF animations[i].name = name
              THEN [name |-> name, frames |-> <<>>]
              ELSE animations[i]]
    ELSE Append(animations, [name |-> name, frames |-> <<>>])

\* the Player p when name is absent from its mapping, and when name maps to an
\* empty sequence
NameAbsent(p, name) == [p EXCEPT !.animations = WithoutEntry(p.animations, name)]
NameEmpty(p, name) == [p EXCEPT !.animations = WithEmptyEntry(p.animations, name)]

\* name has no frames in the mapping of p: it is absent or maps to an empty sequence
Unusable(p, name) == animations_get(p.animations, name) = <<>>

\* two Players that differ at most in the mapping itself
SameOutcome(a, b) == [a EXCEPT !.animations = <<>>] = [b EXCEPT !.animations = <<>>]

\* load_animations keeps an entry that yields zero frames, as an empty sequence
LoadStoresEmpty ==
    \A table \in AnimationTables :
        \A i \in 1..Len(table) :
            table[i].count = 0
                => /\ Len(load_animations(table)) = Len(table)
                   /\ load_animations(table)[i] = [name |-> table[i].name, frames |-> <<>>]

\* C28 as stated: load_animations stores a zero-frame entry as an empty
\* sequence, and for every Player state set_animation(name) gives the same
\* resulting state whether name is absent from the mapping or maps to an empty
\* sequence.
C28_EmptyEqualsMissing ==
    /\ LoadStoresEmpty
    /\ \A name \in AnimationNames :
           Unusable(wizard, name)
               => SameOutcome(set_animation(NameAbsent(wizard, name), name),
                              set_animation(NameEmpty(wizard, name), name))

\* C28 amended: load_animations stores a zero-frame entry as an empty sequence,
\* and set_animation(name) gives the same resulting state whether name is
\* absent or maps to an empty sequence as long as the mapping holds another
\* entry; when name would be the only entry, the absent case is an empty mapping
\* and set_animation returns without changing the Player, while the empty case
\* installs the yellow placeholder, notes the name and resets the cursor.
C28_EmptyEqualsMissingAmongOthers ==
    /\ LoadStoresEmpty
    /\ \A name \in AnimationNames :
           Unusable(wizard, name)
               => LET absent == NameAbsent(wizard, name)
                      empty == NameEmpty(wizard, name)
                  IN  IF absent.animations # <<>>
                      THEN SameOutcome(set_animation(absent, name),
                                       set_animation(empty, name))
                      ELSE /\ set_animation(absent, name) = absent
                           /\ set_animation(empty, name) =
                                  reset_cursor(
                                      [install_placeholder(empty, "yellow")
                                          EXCEPT !.current_frames = <<>>,
                                                 !.current_animation_name = name])

\* set_animation has just been called with a name stored as an empty sequence
\* beside other entries, it changed the Player, and the result is the one the
\* same Player gets with the name absent
C28_Witness ==
    /\ step = "set_animation"
    /\ \E name \in AnimationNames :
           /\ animations_has(prev.animations, name)
           /\ Unusable(prev, name)
           /\ WithoutEntry(prev.animations, name) # <<>>
           /\ wizard = set_animation(prev, name)
           /\ wizard # prev
           /\ SameOutcome(wizard, set_animation(NameAbsent(prev, name), name))

----------------------------------------------------------------------------
(* C29 *)

\* twin after the movement step of its last update, as update_animation of
\* player.py receives it, and the animation that update asks for
DraftTarget == target_animation(DraftMoved)

\* update_animation of player.py called set_animation (lines 221-222) with a
\* name that is missing or empty, while no valid animation was playing and
\* some other animation has frames
DraftFallbackCase ==
    /\ calls > 0
    /\ DraftMoved.current_animation_name # DraftTarget \/ DraftMoved.current_frames = <<>>
    /\ Unusable(DraftMoved, DraftTarget)
    /\ ~(DraftMoved.current_frames # <<>> /\ DraftMoved.current_animation_name # None)
    /\ first_available(DraftMoved.animations).found

\* C29: when player.py's set_animation is asked for a missing or empty name, no
\* valid animation is playing and some other animation has frames, the call
\* completes without raising and leaves current_animation_name and
\* current_frames set to the first available non-empty animation.
C29_DraftFallback ==
    DraftFallbackCase
        => /\ ~twin.raised
           /\ twin.current_animation_name = first_available(DraftMoved.animations).name
           /\ twin.current_frames = first_available(DraftMoved.animations).frames

----------------------------------------------------------------------------
(* C30 *)

\* C30: the bottom boundary player.py's Player is clamped to is the playable
\* area height: after every update of that Player its rect bottom is at most
\* GAME_AREA_HEIGHT, so it never overlaps the info-panel strip.
C30_DraftPlayableFloor ==
    (calls > 0 /\ ~twin.raised) => twin.rect.y + twin.rect.h <= GAME_AREA_HEIGHT

----------------------------------------------------------------------------
(* spritesheet.py called directly: get_image and get_animation_frames with  *)
(* arguments of the caller's choice, on the loaded sheet.  A scale is held  *)
(* in tenths, 0 standing for None.                                          *)

MaxCount == 3   \* largest num_frames asked of get_animation_frames

SheetXs == {0, 100}
SheetYs == {0, 75}
\* frame widths and heights: the shipped 24 and an odd size
SheetSizes == {PLAYER_SPRITE_WIDTH, PLAYER_SPRITE_WIDTH + 1}
SheetSpacings == {0, 1, 2}
\* None, 1, 1.5, 2.5 and the shipped 3
SheetScales == {0, 10, 15, 25, PLAYER_SCALE_FACTOR * 10}

InitSheet ==
    InitWith(wizard_animations_data, "idle_front", player_start_pos,
             PLAYER_ANIMATION_TICKS_PER_FRAME, NoKeys, 0, 0)

GetImage ==
    \E x \in SheetXs, y \in SheetYs, width \in SheetSizes, height \in SheetSizes,
       scale \in SheetScales :
        /\ sheet = "loaded"
        /\ request' = [method |-> "get_image", x |-> x, y |-> y, width |-> width,
                       height |-> height, num_frames |-> 1, spacing |-> 0, scale |-> scale]
        /\ extracted' = <<get_image(x, y, width, height, scale)>>
        /\ UNCHANGED <<wizard, platforms, keys, dt, running, pc, prev, calls, origin, streak,
                       contact, twin, dt2, agree, sheet, loads, samples, draws, step>>

GetAnimationFrames ==
    \E start_x \in SheetXs, y \in SheetYs, frame_width \in SheetSizes,
       frame_height \in SheetSizes, num_frames \in 0..MaxCount, spacing \in SheetSpacings,
       scale \in SheetScales :
        /\ sheet = "loaded"
        /\ request' = [method |-> "get_animation_frames", x |-> start_x, y |-> y,
                       width |-> frame_width, height |-> frame_height,
                       num_frames |-> num_frames, spacing |-> spacing, scale |-> scale]
        /\ extracted' = get_animation_frames(start_x, y, frame_width, frame_height,
                                             num_frames, spacing, scale)
        /\ UNCHANGED <<wizard, platforms, keys, dt, running, pc, prev, calls, origin, streak,
                       contact, twin, dt2, agree, sheet, loads, samples, draws, step>>

NextSheet == GetImage \/ GetAnimationFrames

SpecSheet == InitSheet /\ [][NextSheet]_vars

----------------------------------------------------------------------------
(* C31 *)

\* the size one extraction comes out with: the frame size, or int(size * scale)
\* when a scale is given
ExtractedSize(size, scale10) == IF scale10 # 0 THEN (size * scale10) \div 10 ELSE size

\* C31: get_animation_frames(start_x, y, w, h, count, spacing, scale) returns
\* exactly count frames in order, the k-th (k = 0..count-1) being the
\* extraction of the source rectangle at x = start_x + k*(w + spacing) with the
\* same y, w and h; count = 0 yields the empty list; the result is fixed by the
\* arguments alone, so a second call with the same arguments yields the same
\* sequence.
C31_StripExtraction ==
    request.method = "get_animation_frames"
        => /\ Len(extracted) = request.num_frames
           /\ request.num_frames = 0 => extracted = <<>>
           /\ \A k \in 0..(request.num_frames - 1) :
                  extracted[k + 1] =
                      [kind |-> "frame",
                       x |-> request.x + k * (request.width + request.spacing),
                       y |-> request.y,
                       w |-> ExtractedSize(request.width, request.scale),
                       h |-> ExtractedSize(request.height, request.scale)]

\* three frames were cut from a strip with a gap between the frames
C31_Witness ==
    /\ request.method = "get_animation_frames"
    /\ request.num_frames = 3
    /\ request.spacing = 2
    /\ Len(extracted) = 3
    /\ extracted[3].x = request.x + 2 * (request.width + 2)
    /\ extracted[1].x = request.x

----------------------------------------------------------------------------
(* C32 *)

\* C32: when a scale is given, get_image returns an image of size
\* round(w*scale) by round(h*scale), for every width, height and scale, also
\* when the product has a fractional part of one half or more.
C32_ScaledFrameSize ==
    (request.method = "get_image" /\ request.scale # 0)
        => /\ extracted[1].w = round(request.width * request.scale)
           /\ extracted[1].h = round(request.height * request.scale)

----------------------------------------------------------------------------
(* C33 *)

\* every frame of every animation of p has one and the same size
RECURSIVE AllFrames(_)
AllFrames(animations) ==
    IF animations = <<>> THEN <<>>
    ELSE Head(animations).frames \o AllFrames(Tail(animations))

UniformFrames(p) ==
    \A i, j \in 1..Len(AllFrames(p.animations)) :
        /\ AllFrames(p.animations)[i].w = AllFrames(p.animations)[j].w
        /\ AllFrames(p.animations)[i].h = AllFrames(p.animations)[j].h

\* C33: after every update call the rect's top-left equals
\* (round(position.x), round(position.y)), provided all animation frames have
\* the same size.
C33_RectFollowsPosition ==
    (calls > 0 /\ UniformFrames(wizard))
        => /\ wizard.rect.x = round(wizard.position.x)
           /\ wizard.rect.y = round(wizard.position.y)

----------------------------------------------------------------------------
(* C34 *)

\* C34: whenever the current animation has frames and animation_ticks_per_frame
\* is at least 1, at the end of every update call
\* 0 <= ticks_since_last_frame_change < animation_ticks_per_frame, also when a
\* tuning key lowered animation_ticks_per_frame below the running count just
\* before that update.
C34_TickCounterBounded ==
    (/\ calls > 0
     /\ step \in {"draw", "top"}
     /\ wizard.current_frames # <<>>
     /\ wizard.animation_ticks_per_frame >= 1)
        => /\ 0 <= wizard.ticks_since_last_frame_change
           /\ wizard.ticks_since_last_frame_change < wizard.animation_ticks_per_frame

\* seven ticks were counted under 8 ticks per frame when K_3 lowered the value
\* to 6, and the update call that followed ended with the count back at 0
C34_Witness ==
    /\ step = "draw"
    /\ twin.animation_ticks_per_frame = 8
    /\ prev.animation_ticks_per_frame = 6
    /\ prev.ticks_since_last_frame_change = 7
    /\ wizard.current_frames # <<>>
    /\ wizard.animation_ticks_per_frame = 6
    /\ wizard.ticks_since_last_frame_change = 0

----------------------------------------------------------------------------
(* C35 *)

\* the Player was spawned with its rect overlapping no platform
SpawnedClear == spritecollide(origin.rect, platforms) = <<>>

\* C35: with the platform layout of main2.py and the player spawned without
\* overlapping any platform, for per-frame displacements of at most one tile
\* and any key sequence, the rect overlaps no platform after every update call.
C35_NoOverlap ==
    (/\ calls > 0
     /\ SpawnedClear
     /\ Displacement(PLAYER_SPEED_PPS, dt) <= float(TILE_WIDTH))
        => spritecollide(wizard.rect, platforms) = <<>>

----------------------------------------------------------------------------
(* The Player above a floating platform *)

TunnelUpdates == 2   \* update calls explored from a start above a platform

\* standing height above floating platform 2, two pixels above floating
\* platform 1, and well above floating platform 2
TunnelPositions ==
    { [x |-> 150, y |-> 190], [x |-> 400, y |-> 262], [x |-> 150, y |-> 100] }

InitTunnel ==
    \E table \in {wizard_animations_data, MixedSizeTable}, pos \in TunnelPositions :
        InitWith(table, "idle_front", pos, 2, NoKeys, 0, 0)

TunnelUpdate ==
    \E k \in KeyStates, d \in DTs :
        /\ calls < TunnelUpdates
        /\ UpdateCall(k, d)
        /\ UNCHANGED <<running, pc, twin, dt2, agree, sheet, loads, samples, draws, step>>

NextTunnel == TunnelUpdate

SpecTunnel == InitTunnel /\ [][NextTunnel]_vars

----------------------------------------------------------------------------
(* C36 *)

\* r lies entirely above q, within the horizontal extent of q, entirely below q
EntirelyAbove(r, q) == r.y + r.h <= q.y
WithinExtent(r, q) == r.x < q.x + q.w /\ r.x + r.w > q.x
AtOrBelowBottom(r, q) == r.y >= q.y + q.h

\* the frames played so far are the first, or the first and the second; the
\* rects at their ends are prev.rect and wizard.rect, and the Player started
\* the first from origin
StayedWithin(q) ==
    /\ calls \in {1, 2}
    /\ WithinExtent(origin.rect, q)
    /\ calls = 2 => WithinExtent(prev.rect, q)
    /\ WithinExtent(wizard.rect, q)

\* C36: if the per-frame vertical displacement never exceeds a platform's
\* thickness, a player that starts a frame entirely above that platform and
\* horizontally overlapping it never ends a later frame with its rect top at or
\* below the platform's bottom without having left the platform's horizontal
\* extent in between.
C36_NoTunnelling ==
    \A i \in 1..Len(platforms) :
        (/\ EntirelyAbove(origin.rect, platforms[i].rect)
         /\ StayedWithin(platforms[i].rect)
         /\ \A d \in DTs : Displacement(PLAYER_SPEED_PPS, d) <= float(platforms[i].rect.h))
            => ~AtOrBelowBottom(wizard.rect, platforms[i].rect)

----------------------------------------------------------------------------
(* The Player falling: the loop runs for ever with one fixed dt, and the up  *)
(* key is held in the first updates at most                                  *)

RiseUpdates == 2   \* update calls in which the up key may still be held

\* no key, right, down, or up
OnlyDown == [left |-> FALSE, right |-> FALSE, up |-> FALSE, down |-> TRUE]
OnlyUp == [left |-> FALSE, right |-> FALSE, up |-> TRUE, down |-> FALSE]
LandKeys == {NoKeys, OnlyRight, OnlyDown, OnlyUp}

\* in the air over the ground, the start of main2.py, above floating platform 2
LandPositions == { OpenPosition, player_start_pos, [x |-> 150, y |-> 190] }

InitLand ==
    \E pos \in LandPositions, d \in DTs :
        InitWith(wizard_animations_data, "idle_front", pos, 2, NoKeys, d, 0)

\* one call of wizard.update(dt, platforms); calls counts the first RiseUpdates
\* of them only, and the histories of the bounded specifications are not kept
LandUpdate ==
    \E k \in LandKeys :
        /\ pc = "loop"
        /\ k.up => calls < RiseUpdates
        /\ wizard' = update(wizard, k, dt, platforms)
        /\ keys' = k
        /\ calls' = (IF calls < RiseUpdates THEN calls + 1 ELSE calls)
        /\ platforms' = update_platforms(wizard, k, dt, platforms)
        /\ UNCHANGED <<dt, running, pc, prev, origin, streak, contact, twin, dt2, agree, sheet,
                       loads, samples, draws, step, request, extracted>>

NextLand == LandUpdate

\* the loop of main2.py calls update in every iteration, for ever: update steps
\* keep happening
SpecLand == InitLand /\ [][NextLand]_vars /\ []<><<LandUpdate>>_vars

----------------------------------------------------------------------------
(* C37 *)

\* C37: from any reachable state, if the up key is never held again and every
\* dt is one fixed positive value, is_on_ground becomes true after finitely
\* many update calls, and does so again and again.
C37_FallingLands == []<>(wizard.is_on_ground)

\* the up key can no longer be held, and the player, started in the air at
\* (600, 100), stands on the ground platform
C37_Witness ==
    /\ calls = RiseUpdates
    /\ ~keys.up
    /\ origin.rect = Rect(OpenPosition.x, OpenPosition.y, 72, 72)
    /\ ~origin.is_on_ground
    /\ wizard.is_on_ground
    /\ wizard.rect.y + wizard.rect.h = platforms[1].rect.y

----------------------------------------------------------------------------
(* The Player with frames of several sizes, one frame per update call *)

SwapUpdates == 2   \* update calls explored with frames of several sizes

\* walk_right frames of an odd size beside the shipped 24x24
OddSizeTable ==
    << AnimationEntry("walk_left", 0, 24, 24, 4), AnimationEntry("idle_front", 100, 24, 24, 4),
       AnimationEntry("walk_right", 200, 25, 25, 4) >>

InitSwap ==
    \E table \in {MixedSizeTable, OddSizeTable, ShortClipTable},
       pos \in {OpenPosition, player_start_pos} :
        InitWith(table, "idle_front", pos, 1, NoKeys, 0, 0)

SwapUpdate ==
    \E k \in KeyStates, d \in DTs :
        /\ calls < SwapUpdates
        /\ UpdateCall(k, d)
        /\ UNCHANGED <<running, pc, twin, dt2, agree, sheet, loads, samples, draws, step>>

NextSwap == SwapUpdate

SpecSwap == InitSwap /\ [][NextSwap]_vars

----------------------------------------------------------------------------
(* C38 *)

\* update_animation of the last update put a frame in place of the image it
\* found: set_animation installed the first frame of another animation, or the
\* tick rule moved on to the next frame, or both
LastSwapped ==
    /\ calls > 0
    /\ LastResolved.rect # NoRect
    /\ wizard.image.kind = "frame"
    /\ wizard.image # LastResolved.image

\* C38: when update_animation advances to the next frame, or set_animation
\* installs the first frame of a new animation, while a rect exists, the new rect
\* has the same centre as the rect before the swap, whatever the two frame
\* sizes are.
C38_SwapKeepsCenter ==
    LastSwapped
        => /\ centerx(wizard.rect) = centerx(LastResolved.rect)
           /\ centery(wizard.rect) = centery(LastResolved.rect)
           /\ wizard.rect.w = wizard.image.w
           /\ wizard.rect.h = wizard.image.h

\* the last update swapped a 72 px frame for a 75 px one: the rect has an odd
\* size, a new top-left corner and the old centre
C38_Witness ==
    /\ LastSwapped
    /\ LastResolved.rect.w = 72
    /\ wizard.rect.w = 75
    /\ wizard.rect.x # LastResolved.rect.x
    /\ centerx(wizard.rect) = centerx(LastResolved.rect)
    /\ centery(wizard.rect) = centery(LastResolved.rect)
=============================================================================
